---- MODULE Spec2Model ----
(***************************************************************************)
(* A model of the service worker's Driver (src/src/driver.ts): one-shot    *)
(* initialization from the persisted "control" table, the assignment of an *)
(* app version to every fetch event, update checks and version failure.    *)
(*                                                                         *)
(* Every await of the code is a step boundary: what runs between two       *)
(* awaits is one atomic action.  A manifest is identified with its hash;   *)
(* every manifest lists one hash-pinned prefetch asset whose content is    *)
(* different in every version, so a version can only be filled from a      *)
(* server that serves exactly that version.                                *)
(***************************************************************************)
EXTENDS Integers, FiniteSets, Sequences, TLC

\* ------------------------------------------------------------- bounds
NumHashes == 2
NumClients == 2
MaxInFlight == 2
MaxUpdates == 2

Hashes == 1..NumHashes
Clients == 1..NumClients
UpdSlots == 1..MaxUpdates

\* `null`: the client id of a navigation request, the unset latestHash.
Null == 0

\* enum DriverReadyState
NORMAL == "NORMAL"
EXISTING_CLIENTS_ONLY == "EXISTING_CLIENTS_ONLY"
SAFE_MODE == "SAFE_MODE"

\* What scope.fetch can do: serve the files and manifest of one version,
\* answer every request with a non-OK response, or reject (no network).
ServerStates ==
  {[kind |-> "ok", hash |-> h] : h \in Hashes}
    \cup {[kind |-> "notok", hash |-> Null], [kind |-> "offline", hash |-> Null]}

\* Maps from client ids to hashes (Map<ClientId, ManifestHash>, ClientAssignments).
Assignments(vals) == UNION {[D -> vals] : D \in SUBSET Clients}
EmptyMap == [c \in {} |-> Null]

VARIABLES
  state,             \* Driver.state
  initialized,       \* Driver.initialized: "null", "pending", "resolved", "rejected"
  clientVersionMap,  \* Driver.clientVersionMap
  versions,          \* keys of Driver.versions
  latestHash,        \* Driver.latestHash
  db,                \* the persisted 'control' table
  cached,            \* versions whose asset cache holds the prefetched asset
  server,            \* what the network currently serves
  init,              \* the running initialize() call: pc and its locals
  vinit,             \* per hash: the scheduleInitialization() started by initialize()
  reqs,              \* fetch events inside handleFetch(): how many of each kind
  upd,               \* running checkForUpdate() calls
  last,              \* how the last settled fetch event was answered
  initRuns,          \* how often this Driver instance called initialize()
  preRestart         \* clientVersionMap of the previous Driver instance

\* One asset group of one app version (src/src/assets.ts), with its idle scheduler.
VARIABLES
  mode,              \* AssetGroupConfig.mode: "prefetch" or "lazy"
  assetCache,        \* the group's cache: per url the response stored, or NoRes
  assetMeta,         \* the group's metadata table: per url the timestamp, or NoTs
  inFlightRequests,  \* AssetGroup.inFlightRequests: per url the owning call, or NoCall
  calls,             \* the calls inside fetchAndCacheOnce: pc, url, who called, response
  idleQueue,         \* IdleScheduler.queue: number of scheduled revalidations
  assetServer,       \* per url the response the network gives
  now,               \* Adapter.time
  groupInit,         \* the group's initializeFully(): "none", "running", "resolved", "rejected"
  answered,          \* what the last finished handleFetch() of the group returned
  copied             \* the response a newer version copied from this group (maybeUpdate)

assetVars == <<mode, assetCache, assetMeta, inFlightRequests, calls, idleQueue,
               assetServer, now, groupInit, answered, copied>>

\* One data group of one app version (src/src/manifest.ts), its LRU list loaded.
VARIABLES
  lru,               \* DataGroup._lru.state: head, tail, map, count
  lruTable,          \* the 'lru' record of the group's lru table
  dataCache,         \* the group's cache: per url the response stored, or NoRes
  ageTable,          \* the group's age table: per url the recorded time, or NoTs
  dataReqs,          \* the requests inside DataGroup.handleFetch: pc and locals
  dataServer,        \* does the network answer the group's urls with an OK response
  dataTime,          \* Adapter.time
  dataAnswered,      \* what the last finished handleFetch() of the group returned
  maxSize            \* DataGroupConfig.maxSize

dataVars == <<lru, lruTable, dataCache, ageTable, dataReqs, dataServer, dataTime,
              dataAnswered, maxSize>>

\* The idle scheduler (src/unnamed/part_004, IdleScheduler).
VARIABLES
  queue,             \* IdleScheduler.queue: the scheduled tasks, each by its fate
  scheduled,         \* IdleScheduler.scheduled: the current ScheduledRun, or NoRun
  cancel,            \* per ScheduledRun (one per trigger() call): its cancel flag
  empty,             \* IdleScheduler.empty: "resolved" or "pending"
  emptyResolve,      \* IdleScheduler.emptyResolve !== null
  triggers,          \* the trigger() calls: pc, and whether the call ran execute()
  running,           \* per trigger() call: the tasks its execute() started, unsettled
  taskCount          \* number of schedule() calls so far

idleVars == <<queue, scheduled, cancel, empty, emptyResolve, triggers, running,
              taskCount>>

\* One call of AppVersion.initializeFully (src/src/app-version.ts).
VARIABLES
  okay,              \* AppVersion._okay
  groupModes,        \* manifest.assetGroups: the mode of each declared group
  updateFrom,        \* is initializeFully called with an update source
  groupRun,          \* per asset group: its initializeFully() not called, running,
                     \* done or failed
  steps,             \* per asset group: the promise of its reduce callback
  fully              \* the call of AppVersion.initializeFully

versionVars == <<okay, groupModes, updateFrom, groupRun, steps, fully>>

\* The app versions of a Driver, their groups and backing stores, and the calls
\* of AppVersion.handleFetch and Driver.lookupResourceWithHash.
VARIABLES
  manifestOf,        \* per manifest hash: the manifest (its groups, its hashTable)
  versionOrder,      \* Driver.versions: the hashes in the order they were set
  opened,            \* per version: the caches and tables its groups opened
  handle,            \* per version: its call of AppVersion.handleFetch
  invoked,           \* per version: the group handlers that call invoked, in order
  lookup             \* the call of Driver.lookupResourceWithHash

appVars == <<manifestOf, versionOrder, opened, handle, invoked, lookup>>

vars == <<state, initialized, clientVersionMap, versions, latestHash, db, cached,
          server, init, vinit, reqs, upd, last, initRuns, preRestart, assetVars,
          dataVars, idleVars, versionVars, appVars>>

driverVars == <<state, initialized, clientVersionMap, versions, latestHash>>

\* ------------------------------------------------------------- helpers
\* The keys of the 'control' table.  A table is a record of the keys it holds
\* and their values; `present` tells whether the three reads of initialize()
\* all resolve (a read of a missing key rejects with NotFound).
ControlKeys == {"manifests", "assignments", "latest"}
NoDb == [present |-> FALSE, keys |-> {}, manifests |-> {}, assignments |-> EmptyMap,
         latest |-> Null]

\* Table.write for the keys in written, on table t: the values m, a, l replace
\* what the table held under these keys.
WriteKeys(t, written, m, a, l) ==
  [present |-> t.keys \cup written = ControlKeys,
   keys |-> t.keys \cup written,
   manifests |-> IF "manifests" \in written THEN m ELSE t.manifests,
   assignments |-> IF "assignments" \in written THEN a ELSE t.assignments,
   latest |-> IF "latest" \in written THEN l ELSE t.latest]
NoInit == [pc |-> "none", manifests |-> {}, assignments |-> EmptyMap, latest |-> Null]
IdleUpd == [pc |-> "idle", hash |-> Null]

\* A fetch event inside handleFetch() either waits for `this.initialized` (and is
\* known by its client id) or waits for the handler of the version chosen for it.
Waiting(c) == [st |-> "waiting", id |-> c]
Serving(h) == [st |-> "serving", id |-> h]
ReqKinds == {Waiting(c) : c \in Clients \cup {Null}} \cup {Serving(h) : h \in Hashes}
NoReqs == [k \in ReqKinds |-> 0]
RECURSIVE Total(_, _)
Total(b, S) == IF S = {} THEN 0
               ELSE LET k == CHOOSE x \in S : TRUE IN b[k] + Total(b, S \ {k})
InFlight == Total(reqs, ReqKinds)

\* Map.set(k, v)
MapSet(m, k, v) == [x \in DOMAIN m \cup {k} |-> IF x = k THEN v ELSE m[x]]

\* scope.fetch(req) for the fallback to the network: it rejects only when there is
\* no network; a non-OK response is still a response.
NetworkRejects(srv) == srv.kind = "offline"

\* Driver.fetchLatestManifest: the hash of the manifest the server serves, or Null
\* when the fetch rejects or the body is no manifest (res.json() rejects).
FetchLatestManifest(srv) == srv.hash

\* Whether the asset of version h can be brought into (or already is in) its cache:
\* PrefetchAssetGroup.initializeFully skips a cached url, and fetchFromNetwork
\* accepts only an OK response whose SHA-1 is the one of h's hashTable.
CanFill(h, cch, srv) == h \in cch \/ srv.hash = h

\* ------------------------------------------------------------- Driver, pure parts

\* Mutant: onFetch without the SAFE_MODE guard.
OnFetchAlwaysHandles(st) == TRUE

\* Driver.onFetch: whether the event is passed to respondWith(handleFetch(event)).
OnFetchHandles(st) == st # SAFE_MODE

\* Driver.handleFetch: initialize() is started only when it was never attempted.
NeedsInitialize(i) == i = "null"

\* Mutant: the catch block forgets to enter the safe state.
CatchKeepsState(st) == st

\* Driver.handleFetch, the catch around `await this.initialized`: the new state.
CatchInitFailure(st) == SAFE_MODE

\* Driver.lookupVersionByHash: TRUE when the version is loaded, FALSE when it throws.
LookupVersionByHash(hash, vers) == hash \in vers

\* Mutant: assignVersion without the clientVersionMap lookup: every client id is
\* treated as new.
AssignVersionIgnoresPin(c, cvm, st, latest, vers) ==
  IF st # NORMAL
  THEN [kind |-> "null", hash |-> Null, cvm |-> cvm]
  ELSE IF latest = Null
       THEN [kind |-> "throw", hash |-> Null, cvm |-> cvm]
       ELSE [kind |-> IF latest \in vers THEN "version" ELSE "throw", hash |-> latest,
             cvm |-> IF c # Null THEN MapSet(cvm, c, latest) ELSE cvm]

\* Driver.assignVersion: kind is "version" (hash is the chosen version), "null" (no
\* assignment is possible) or "throw" (an invariant violation); cvm is
\* clientVersionMap after the call.
AssignVersion(c, cvm, st, latest, vers) ==
  IF c # Null
  THEN IF c \in DOMAIN cvm
       THEN [kind |-> IF LookupVersionByHash(cvm[c], vers) THEN "version" ELSE "throw",
             hash |-> cvm[c], cvm |-> cvm]
       ELSE IF st # NORMAL
            THEN [kind |-> "null", hash |-> Null, cvm |-> cvm]
            ELSE IF latest = Null
                 THEN [kind |-> "throw", hash |-> Null, cvm |-> cvm]
                 ELSE [kind |-> IF LookupVersionByHash(latest, vers) THEN "version" ELSE "throw",
                       hash |-> latest, cvm |-> MapSet(cvm, c, latest)]
  ELSE IF st # NORMAL
       THEN [kind |-> "null", hash |-> Null, cvm |-> cvm]
       ELSE IF latest = Null
            THEN [kind |-> "throw", hash |-> Null, cvm |-> cvm]
            ELSE [kind |-> IF LookupVersionByHash(latest, vers) THEN "version" ELSE "throw",
                  hash |-> latest, cvm |-> cvm]

\* Driver.versionFailed for the AppVersion registered under hash h: the new state
\* and clientVersionMap.
VersionFailed(h, vers, latest, cvm, st) ==
  IF h \notin vers
  THEN [state |-> st, cvm |-> cvm]
  ELSE IF latest = h
       THEN [state |-> EXISTING_CLIENTS_ONLY, cvm |-> EmptyMap]
       ELSE [state |-> st,
             cvm |-> [c \in DOMAIN cvm |-> IF cvm[c] = h THEN latest ELSE cvm[c]]]

\* Mutant: the rehydration without the check that a version is loaded for the hash.
RehydrateUnchecked(assignments, latest, vers, cvm, lh) ==
  {[ok |-> latest \in vers,
    cvm |-> [c \in DOMAIN cvm \cup DOMAIN assignments |->
               IF c \in DOMAIN assignments THEN assignments[c] ELSE cvm[c]],
    latestHash |-> latest]}

\* Driver.initialize, from the rehydration of clientVersionMap to its end: the
\* outcomes the key order of `assignments` allows.  A client whose hash has no
\* version makes forEach throw; the clients visited before it are already set.
Rehydrate(assignments, latest, vers, cvm, lh) ==
  LET bad == {c \in DOMAIN assignments : assignments[c] \notin vers}
      good == DOMAIN assignments \ bad
      setAll(S) == [c \in DOMAIN cvm \cup S |-> IF c \in S THEN assignments[c] ELSE cvm[c]]
  IN IF bad # {}
     THEN {[ok |-> FALSE, cvm |-> setAll(S), latestHash |-> lh] : S \in SUBSET good}
     ELSE {[ok |-> latest \in vers, cvm |-> setAll(good), latestHash |-> latest]}

\* Mutant: activating an update moves every pinned client to the new version.
ActivateRepinsAll(hash, cvm) ==
  [latestHash |-> hash, cvm |-> [c \in DOMAIN cvm |-> hash]]

\* Driver.setupUpdate, its last statement: the new hash becomes the latest; the
\* client assignments are not touched.
Activate(hash, cvm) == [latestHash |-> hash, cvm |-> cvm]

\* Mutant: checkForUpdate without the versions.has(hash) check.
IsUpdateAlways(hash, vers) == TRUE

\* Driver.checkForUpdate: whether the fetched manifest is really an update.
IsUpdate(hash, vers) == hash \notin vers

\* Driver.sync: what the control table holds after it.  The method body is empty.
Sync(table, vers, cvm, latest) == table

\* ------------------------------------------------------------- asset group, data

\* Bounds of the asset group model.
MaxCalls == 2
MaxTime == 2
MaxIdle == 1
NumBodies == 2

\* Cache-Control: max-age of the unhashed file, in clock ticks.
MaxAge == 1

\* The urls of the group: Listed is in config.urls and in the hash table, Unhashed
\* only matches one of config.patterns.
Listed == "/foo.txt"
Unhashed == "/unhashed/a.txt"
AssetUrls == {Listed, Unhashed}

\* File contents; NoBody is the null body of a 404.
Bodies == 1..NumBodies
NoBody == 0

\* sha1 of a body.
Sha1(body) == <<"sha1", body>>

\* Manifest.hashTable: the listed file was hashed with the first content.
HashTable == [u \in {Listed} |-> Sha1(1)]

\* Mutant: the group is built without the hash table.
HashedNever(u) == FALSE

\* this.hashes.has(url)
Hashed(u) == u \in DOMAIN HashTable

\* Responses: OK with a body and a Cache-Control header ("max-age": a max-age
\* directive, "no-cache": a header without one, "none": no header), or 404 Not
\* Found.  NoRes is `undefined` (no cache entry, no response yet), Thrown a
\* rejection.
CacheControls == {"max-age", "no-cache", "none"}
NotFound == [ok |-> FALSE, body |-> NoBody, cc |-> "none"]
Ok(body, cc) == [ok |-> TRUE, body |-> body, cc |-> cc]
NoRes == [ok |-> FALSE, body |-> 0 - 1, cc |-> "none"]
Thrown == [ok |-> FALSE, body |-> 0 - 2, cc |-> "none"]

\* What the server can answer for a url: the file with any content (an unhashed
\* file with any of the headers), or 404.
ServedAs(u) ==
  {Ok(b, cc) : b \in Bodies, cc \in IF Hashed(u) THEN {"max-age"} ELSE CacheControls}
    \cup {NotFound}
NoTs == 0 - 1
NoCall == 0
CallIds == 1..MaxCalls
FreeCall == [pc |-> "free", url |-> Listed, kind |-> "none", res |-> NoRes]

\* A new group instance on a store (cache and metadata table) c, m.
AssetStart(md, c, m, srv) ==
  /\ mode = md
  /\ assetCache = c
  /\ assetMeta = m
  /\ inFlightRequests = [u \in AssetUrls |-> NoCall]
  /\ calls = [t \in CallIds |-> FreeCall]
  /\ idleQueue = 0
  /\ assetServer = srv
  /\ now = 0
  /\ groupInit = "none"
  /\ answered = [url |-> Listed, res |-> NoRes]
  /\ copied = NoRes

EmptyStore == [u \in AssetUrls |-> NoRes]
EmptyMeta == [u \in AssetUrls |-> NoTs]

\* The asset group is not exercised.
AssetParked ==
  AssetStart("prefetch", EmptyStore, EmptyMeta, [u \in AssetUrls |-> NotFound])

\* ------------------------------------------------------------- initial states

\* A control table as an earlier worker generation may have left it: absent (or
\* unreadable), or any three JSON values, consistent or not.
Tables ==
  {NoDb} \cup
  {WriteKeys(NoDb, ControlKeys, m, a, l) :
     m \in SUBSET Hashes, a \in Assignments(Hashes), l \in Hashes}

\* ---- the data group: configuration, LruList, initial state

\* Bounds: concurrent requests of the group, clock values, and how far the
\* LruList count may run below zero.
MaxDataReqs == 2
MaxDataTime == 1
MaxSkew == 1

\* The largest DataGroupConfig.maxSize tried; DataGroupConfig.maxAge (in clock
\* ticks).
MaxSizes == 2
maxAge == 0

\* Urls matching the group's patterns, and the two of them that overlapping
\* requests use; `null` as a url.
DataUrls == {"/api/a", "/api/b", "/api/c"}
OverlapUrls == {"/api/a", "/api/b"}
NoUrl == "null"

\* Request methods: GET and HEAD are served from the cache, POST is mutating.
Methods == {"GET", "HEAD", "POST"}

\* LruNode (its url is its key in the map); NoNode is `undefined`.
NoNode == [next |-> "undefined", previous |-> "undefined"]
NewNode == [next |-> NoUrl, previous |-> NoUrl]

\* new LruList()
EmptyLru ==
  [head |-> NoUrl, tail |-> NoUrl, map |-> [u \in DataUrls |-> NoNode], count |-> 0]

\* this.state.map[key], for a key that may be null.
NodeAt(st, key) == IF key \in DataUrls THEN st.map[key] ELSE NoNode

\* Outcomes of an LruList method: the state it leaves, its return value, and
\* whether it returned (ok) or stopped with a TypeError on an undefined node.
Returned(st, ret) == [state |-> st, ret |-> ret, ok |-> TRUE]
TypeError(st) == [state |-> st, ret |-> NoUrl, ok |-> FALSE]

\* LruList.pop
LruPop(st) ==
  IF st.tail = NoUrl THEN Returned(st, NoUrl)
  ELSE LET url == st.tail
           block == st.map[url]
           forget(s1) == [s1 EXCEPT !.map[url] = NoNode, !.count = @ - 1]
       IN IF st.head = st.tail
          THEN Returned(forget([st EXCEPT !.head = NoUrl, !.tail = NoUrl]), url)
          ELSE IF block = NoNode \/ NodeAt(st, block.previous) = NoNode
          THEN TypeError(st)
          ELSE Returned(forget([st EXCEPT !.tail = block.previous,
                                          !.map[block.previous].next = block.next]), url)

\* LruList.remove
LruRemove(st, url) ==
  LET node == st.map[url]
  IN IF node = NoNode THEN Returned(st, FALSE)
     ELSE IF st.head = url
     THEN IF node.next = NoUrl THEN Returned(EmptyLru, TRUE)
          ELSE IF NodeAt(st, node.next) = NoNode THEN TypeError(st)
          ELSE Returned([st EXCEPT !.map[node.next].previous = NoUrl,
                                   !.head = node.next,
                                   !.count = @ - 1], TRUE)
     ELSE IF NodeAt(st, node.previous) = NoNode THEN TypeError(st)
     ELSE LET s1 == [st EXCEPT !.map[node.previous].next = node.next]
          IN IF node.next # NoUrl
             THEN IF NodeAt(s1, node.next) = NoNode THEN TypeError(s1)
                  ELSE Returned([s1 EXCEPT !.map[node.next].previous = node.previous,
                                           !.count = @ - 1], TRUE)
             ELSE Returned([s1 EXCEPT !.tail = node.previous, !.count = @ - 1], TRUE)

\* LruList.accessed
LruAccessed(st, url) ==
  IF st.head = url THEN Returned(st, FALSE)
  ELSE LET tracked == st.map[url] # NoNode
           r == IF tracked THEN LruRemove(st, url) ELSE Returned(st, FALSE)
           s1 == r.state
           node == IF tracked THEN s1.map[url] ELSE NewNode
       IN IF ~r.ok THEN TypeError(s1)
          ELSE IF s1.head # NoUrl /\ NodeAt(s1, s1.head) = NoNode THEN TypeError(s1)
          ELSE LET s2 == IF s1.head # NoUrl
                         THEN [s1 EXCEPT !.map[s1.head].previous = url]
                         ELSE s1
               IN Returned([s2 EXCEPT !.map[url] = [next |-> s2.head,
                                                    previous |-> node.previous],
                                      !.head = url,
                                      !.tail = IF s2.tail = NoUrl THEN url ELSE s2.tail,
                                      !.count = @ + 1], FALSE)

\* The responses of the group's urls: the file, and the synthetic 504.
DataOk == Ok(1, "none")
GatewayTimeout == [ok |-> FALSE, body |-> NoBody, cc |-> "504"]

DataReqIds == 1..MaxDataReqs
FreeReq ==
  [pc |-> "free", url |-> NoUrl, mutating |-> FALSE, target |-> NoUrl, late |-> FALSE,
   waitUntil |-> "none"]

\* The promise of the async function handed to ctx.waitUntil, once `await
\* networkFetch` is over: the function calls cacheResponse without awaiting
\* it and returns, so the promise is settled.
AfterNetworkFetch(w) == IF w = "pending" THEN "settled" ELSE w

\* A new DataGroup with maxSize size on empty stores.
DataStart(size) ==
  /\ maxSize = size
  /\ lru = EmptyLru
  /\ lruTable = EmptyLru
  /\ dataCache = [u \in DataUrls |-> NoRes]
  /\ ageTable = [u \in DataUrls |-> NoTs]
  /\ dataReqs = [i \in DataReqIds |-> FreeReq]
  /\ dataTime = 0
  /\ dataAnswered = NoRes

\* The group is never used.
DataParked == DataStart(1) /\ dataServer = FALSE

\* ------------------------------------------------------------- idle scheduler

MaxTriggers == 3
MaxTasks == 3
TriggerIds == 1..MaxTriggers
NoRun == 0

\* What a scheduled task does when execute() calls it: it returns a promise that
\* resolves, it throws, or it returns a promise that rejects.
TaskFates == {"ok", "throws", "rejects"}

UnusedTrigger == [pc |-> "unused", ran |-> FALSE]
NoTasks == [ok |-> 0, rejects |-> 0]

\* A new IdleScheduler.
IdleStart ==
  /\ queue = <<>>
  /\ scheduled = NoRun
  /\ cancel = [i \in TriggerIds |-> FALSE]
  /\ empty = "resolved"
  /\ emptyResolve = FALSE
  /\ triggers = [i \in TriggerIds |-> UnusedTrigger]
  /\ running = [i \in TriggerIds |-> NoTasks]
  /\ taskCount = 0

\* The scheduler is never used.
IdleParked == IdleStart

\* ------------------------------------------------------------- app version

NumGroups == 3
GroupIds == 1..NumGroups
GroupModes == {"prefetch", "lazy"}

\* A new AppVersion of a manifest declaring the asset groups of modes ms, before
\* a call of initializeFully that has an update source or not (from).
VersionStart(ms, from) ==
  /\ okay = TRUE
  /\ groupModes = ms
  /\ updateFrom = from
  /\ groupRun = [k \in GroupIds |-> "idle"]
  /\ steps = [k \in GroupIds |-> "none"]
  /\ fully = "unused"

\* The version is never initialized.
VersionParked == VersionStart([k \in GroupIds |-> "prefetch"], FALSE)

\* ------------------------------------------------------------- versions and stores

\* Bounds: the asset groups and the data groups a manifest declares.
MaxAssetGroups == 2
MaxDataGroups == 2

\* AssetGroupConfig.name / DataGroupConfig.name
GroupNames == {"app", "api"}

\* What a manifest's hashTable holds for the url of a lookup: no entry, the hash
\* looked up, or another hash.
HashEntries == {"none", "same", "other"}

\* The sequences of at most n elements of S.
SeqsUpTo(S, n) == UNION {[1..k -> S] : k \in 0..n}

\* Manifests: the names of the declared asset groups and data groups, in order.
Manifests(names) ==
  [hashEntry : HashEntries, assetGroups : SeqsUpTo(names, MaxAssetGroups),
   dataGroups : SeqsUpTo(names, MaxDataGroups)]
EmptyManifest == [hashEntry |-> "none", assetGroups |-> <<>>, dataGroups |-> <<>>]

\* A template string `${a}:${b}`; strings are sequences of their parts.
Colon(a, b) == a \o <<":">> \o b

\* AppVersion constructor: the prefix handed to an asset group and to a data group.
AssetPrefix(hash, name) == Colon(Colon(<<ToString(hash)>>, <<"assets">>), <<name>>)
DataPrefix(hash, name) == Colon(<<"data">>, <<name>>)

\* AssetGroup constructor: the cache and the metadata table the group opens.
AssetStores(prefix, name) ==
  {[kind |-> "cache", name |-> Colon(Colon(prefix, <<name>>), <<"cache">>)],
   [kind |-> "table", name |-> Colon(Colon(prefix, <<name>>), <<"meta">>)]}

\* DataGroup constructor: the cache and the lru and age tables the group opens.
DataStores(prefix, name) ==
  {[kind |-> "cache", name |-> Colon(Colon(Colon(prefix, <<"dynamic">>), <<name>>), <<"cache">>)],
   [kind |-> "table", name |-> Colon(Colon(Colon(prefix, <<"dynamic">>), <<name>>), <<"lru">>)],
   [kind |-> "table", name |-> Colon(Colon(Colon(prefix, <<"dynamic">>), <<name>>), <<"age">>)]}

\* The stores of all groups of the version built from manifest m with hash h.
VersionStores(h, m) ==
  UNION ({AssetStores(AssetPrefix(h, m.assetGroups[k]), m.assetGroups[k]) :
            k \in 1..Len(m.assetGroups)}
         \cup {DataStores(DataPrefix(h, m.dataGroups[k]), m.dataGroups[k]) :
                  k \in 1..Len(m.dataGroups)})

\* What a handler gives: null, the response of group g of version h, or a
\* rejection.
NoAnswer == [kind |-> "null", hash |-> Null, group |-> <<>>]
Response(h, g) == [kind |-> "response", hash |-> h, group |-> g]
Rejected == [kind |-> "rejected", hash |-> Null, group |-> <<>>]

\* What a group's handleFetch does with a request: it abstains (returns null),
\* returns a response, or throws.
Answers == {"null", "response", "throws"}

IdleHandle == [pc |-> "idle", at |-> 0, by |-> "none", res |-> NoAnswer]
NoLookup == [pc |-> "unused", over |-> <<>>, at |-> 0, asked |-> FALSE, res |-> NoAnswer]

\* A new Driver that will meet the manifests ms.
AppStart(ms) ==
  /\ manifestOf = ms
  /\ versionOrder = <<>>
  /\ opened = [h \in Hashes |-> {}]
  /\ handle = [h \in Hashes |-> IdleHandle]
  /\ invoked = [h \in Hashes |-> <<>>]
  /\ lookup = NoLookup

\* No version is built.
AppParked == AppStart([h \in Hashes |-> EmptyManifest])

DriverInit ==
  /\ state = NORMAL
  /\ initialized = "null"
  /\ clientVersionMap = EmptyMap
  /\ versions = {}
  /\ latestHash = Null
  /\ db \in Tables
  /\ cached \in SUBSET db.manifests
  /\ server \in ServerStates
  /\ init = NoInit
  /\ vinit = [h \in Hashes |-> "none"]
  /\ reqs = NoReqs
  /\ upd = [i \in UpdSlots |-> IdleUpd]
  /\ last = "nothing"
  /\ initRuns = 0
  /\ preRestart = EmptyMap

Init == DriverInit /\ AssetParked /\ DataParked /\ IdleParked /\ VersionParked /\ AppParked

\* ------------------------------------------------------------- fetch events

\* The event's promise settles; `last` tells how: "network" (resolved with the
\* outcome of scope.fetch), "network_reject" (scope.fetch rejected), "version"
\* (the response of an app version), "assign_throw" and "handler_throw" (rejected
\* with the error assignVersion or the version's handler threw).  The promise of a
\* checkForUpdate() call settles as "update_true", "update_false" or
\* "update_failed" (rejected).
Settle(k, how) ==
  /\ reqs' = [reqs EXCEPT ![k] = @ - 1]
  /\ last' = how

Network(srv) == IF NetworkRejects(srv) THEN "network_reject" ELSE "network"

\* Driver.onFetch and handleFetch up to `await this.initialized`.
OnFetch ==
  \E c \in Clients \cup {Null} :
    IF ~OnFetchHandles(state)
    THEN UNCHANGED vars
    ELSE /\ InFlight < MaxInFlight
         /\ reqs' = [reqs EXCEPT ![Waiting(c)] = @ + 1]
         /\ IF NeedsInitialize(initialized)
            THEN /\ initialized' = "pending"
                 /\ init' = [NoInit EXCEPT !.pc = "read"]
                 /\ vinit' = [h \in Hashes |-> "none"]
                 /\ initRuns' = IF initRuns < 2 THEN initRuns + 1 ELSE initRuns
            ELSE UNCHANGED <<initialized, init, vinit, initRuns>>
         /\ UNCHANGED <<state, clientVersionMap, versions, latestHash, db, cached,
                        server, upd, last, preRestart>>

\* Driver.handleFetch from the end of `await this.initialized` to the call of
\* appVersion.handleFetch.
HandleFetchResume ==
  \E c \in Clients \cup {Null} :
    /\ reqs[Waiting(c)] > 0
    /\ initialized \in {"resolved", "rejected"}
    /\ IF initialized = "rejected"
       THEN /\ state' = CatchInitFailure(state)
            /\ Settle(Waiting(c), Network(server))
            /\ UNCHANGED clientVersionMap
       ELSE LET r == AssignVersion(c, clientVersionMap, state, latestHash, versions)
            IN /\ clientVersionMap' = r.cvm
               /\ UNCHANGED state
               /\ CASE r.kind = "throw" -> Settle(Waiting(c), "assign_throw")
                    [] r.kind = "null" -> Settle(Waiting(c), Network(server))
                    [] r.kind = "version" ->
                         /\ reqs' = [reqs EXCEPT ![Waiting(c)] = @ - 1,
                                                 ![Serving(r.hash)] = @ + 1]
                         /\ UNCHANGED last
    /\ UNCHANGED <<initialized, versions, latestHash, db, cached, server, init, vinit,
                   upd, initRuns, preRestart>>

\* Driver.handleFetch from the result of appVersion.handleFetch to its return.  The
\* request either matches no group of the version (the handler returns null) or
\* asks for the version's asset: a cached asset is returned, a missing one goes
\* through fetchAndCacheOnce, which throws unless the network has this version's
\* content.
HandleFetchServe ==
  \E h \in Hashes, matched \in BOOLEAN :
    /\ reqs[Serving(h)] > 0
    /\ IF ~matched
       THEN /\ Settle(Serving(h), Network(server))
            /\ UNCHANGED cached
       ELSE IF CanFill(h, cached, server)
            THEN /\ cached' = cached \cup {h}
                 /\ Settle(Serving(h), "version")
            ELSE /\ Settle(Serving(h), "handler_throw")
                 /\ UNCHANGED cached
    /\ UNCHANGED <<driverVars, db, server, init, vinit, upd, initRuns, preRestart>>

\* ------------------------------------------------------------- initialize()

\* Driver.initialize from the (loaded or fresh) state to `await Promise.all(eachInit)`:
\* one AppVersion per manifest, and the full initialization of each is started.
Hydrate(m, a, l) ==
  /\ versions' = versions \cup m
  /\ vinit' = [h \in Hashes |-> IF h \in m THEN "running" ELSE "none"]
  /\ init' = [pc |-> "inits", manifests |-> m, assignments |-> a, latest |-> l]

\* The three reads of the control table resolve, or one of them rejects.
InitRead ==
  /\ init.pc = "read"
  /\ IF db.present
     THEN Hydrate(db.manifests, db.assignments, db.latest)
     ELSE /\ init' = [init EXCEPT !.pc = "fetch"]
          /\ UNCHANGED <<versions, vinit>>
  /\ UNCHANGED <<state, initialized, clientVersionMap, latestHash, db, cached, server,
                 reqs, upd, last, initRuns, preRestart>>

\* The catch block: fetchLatestManifest() resolves or rejects.
InitFetchManifest ==
  /\ init.pc = "fetch"
  /\ LET hash == FetchLatestManifest(server)
     IN IF hash = Null
        THEN /\ initialized' = "rejected"
             /\ init' = [init EXCEPT !.pc = "done"]
        ELSE /\ init' = [pc |-> "write", manifests |-> {hash}, assignments |-> EmptyMap,
                         latest |-> hash]
             /\ UNCHANGED initialized
  /\ UNCHANGED <<state, clientVersionMap, versions, latestHash, db, cached, server, vinit,
                 reqs, upd, last, initRuns, preRestart>>

\* The fresh state is saved to the control table.
InitWrite ==
  /\ init.pc = "write"
  /\ db' = WriteKeys(db, ControlKeys, init.manifests, init.assignments, init.latest)
  /\ Hydrate(init.manifests, init.assignments, init.latest)
  /\ UNCHANGED <<state, initialized, clientVersionMap, latestHash, cached, server,
                 reqs, upd, last, initRuns, preRestart>>

\* Driver.scheduleInitialization for one version: appVersion.initializeFully()
\* resolves, or throws and versionFailed() runs.
VersionInit ==
  \E h \in Hashes :
    /\ init.pc = "inits"
    /\ vinit[h] = "running"
    /\ IF CanFill(h, cached, server)
       THEN /\ cached' = cached \cup {h}
            /\ vinit' = [vinit EXCEPT ![h] = "ok"]
            /\ UNCHANGED <<state, clientVersionMap>>
       ELSE LET f == VersionFailed(h, versions, latestHash, clientVersionMap, state)
            IN /\ vinit' = [vinit EXCEPT ![h] = "failed"]
               /\ state' = f.state
               /\ clientVersionMap' = f.cvm
               /\ UNCHANGED cached
    /\ UNCHANGED <<initialized, versions, latestHash, db, server, init, reqs, upd, last,
                   initRuns, preRestart>>

\* Driver.initialize after `await Promise.all(eachInit)`.
InitFinish ==
  /\ init.pc = "inits"
  /\ \A h \in Hashes : vinit[h] # "running"
  /\ \E o \in Rehydrate(init.assignments, init.latest, versions, clientVersionMap,
                        latestHash) :
       /\ clientVersionMap' = o.cvm
       /\ latestHash' = o.latestHash
       /\ initialized' = IF o.ok THEN "resolved" ELSE "rejected"
  /\ init' = [init EXCEPT !.pc = "done"]
  /\ UNCHANGED <<state, versions, db, cached, server, vinit, reqs, upd, last,
                 initRuns, preRestart>>

\* ------------------------------------------------------------- checkForUpdate()

FreeUpd(i) == upd[i].pc = "idle" /\ \A j \in UpdSlots : j < i => upd[j].pc # "idle"

\* checkForUpdate() is called by the application once `driver.initialized` has
\* settled (test/happy_spec.ts awaits it before every call); the call runs up to
\* `await this.fetchLatestManifest()`.
CallCheckForUpdate(i) ==
  /\ initialized \in {"resolved", "rejected"}
  /\ FreeUpd(i)
  /\ upd' = [upd EXCEPT ![i] = [pc |-> "manifest", hash |-> Null]]
  /\ UNCHANGED <<driverVars, db, cached, server, init, vinit, reqs, last,
                 initRuns, preRestart>>

\* A call by an application that awaits each call before making the next one.
CheckForUpdate == CallCheckForUpdate(1)

\* A call made while earlier calls are still running.
CheckForUpdateOverlapping == \E i \in UpdSlots \ {1} : CallCheckForUpdate(i)

\* fetchLatestManifest() settles; a known hash returns false, a new one enters
\* setupUpdate up to `await newVersion.initializeFully(this)`.
UpdateFetched ==
  \E i \in UpdSlots :
    /\ upd[i].pc = "manifest"
    /\ LET hash == FetchLatestManifest(server)
       IN IF hash = Null
          THEN /\ upd' = [upd EXCEPT ![i] = IdleUpd]
               /\ last' = "update_failed"
          ELSE IF ~IsUpdate(hash, versions)
               THEN /\ upd' = [upd EXCEPT ![i] = IdleUpd]
                    /\ last' = "update_false"
               ELSE /\ upd' = [upd EXCEPT ![i] = [pc |-> "init", hash |-> hash]]
                    /\ UNCHANGED last
    /\ UNCHANGED <<driverVars, db, cached, server, init, vinit, reqs, initRuns,
                   preRestart>>

\* newVersion.initializeFully(this) settles: on success the version is installed
\* and sync() is called.
UpdateInitialized ==
  \E i \in UpdSlots :
    /\ upd[i].pc = "init"
    /\ IF CanFill(upd[i].hash, cached, server)
       THEN /\ cached' = cached \cup {upd[i].hash}
            /\ versions' = versions \cup {upd[i].hash}
            /\ db' = Sync(db, versions', clientVersionMap, latestHash)
            /\ upd' = [upd EXCEPT ![i].pc = "sync"]
            /\ UNCHANGED last
       ELSE /\ upd' = [upd EXCEPT ![i] = IdleUpd]
            /\ last' = "update_failed"
            /\ UNCHANGED <<cached, versions, db>>
    /\ UNCHANGED <<state, initialized, clientVersionMap, latestHash, server, init, vinit,
                   reqs, initRuns, preRestart>>

\* `await this.sync()` is over: the new hash becomes the latest, the call returns true.
UpdateSynced ==
  \E i \in UpdSlots :
    /\ upd[i].pc = "sync"
    /\ LET a == Activate(upd[i].hash, clientVersionMap)
       IN /\ latestHash' = a.latestHash
          /\ clientVersionMap' = a.cvm
    /\ upd' = [upd EXCEPT ![i] = IdleUpd]
    /\ last' = "update_true"
    /\ UNCHANGED <<state, initialized, versions, db, cached, server, init, vinit, reqs,
                   initRuns, preRestart>>

\* ------------------------------------------------------------- environment

\* The server changes what it serves (SwTestHarness.updateServerState), or the
\* network comes and goes.
ServerChange ==
  /\ server' \in ServerStates \ {server}
  /\ UNCHANGED <<driverVars, db, cached, init, vinit, reqs, upd, last,
                 initRuns, preRestart>>

\* The worker is terminated and started again: a new Driver on the same store.
Restart ==
  /\ initialized # "null"
  /\ state' = NORMAL
  /\ initialized' = "null"
  /\ clientVersionMap' = EmptyMap
  /\ versions' = {}
  /\ latestHash' = Null
  /\ init' = NoInit
  /\ vinit' = [h \in Hashes |-> "none"]
  /\ reqs' = NoReqs
  /\ upd' = [i \in UpdSlots |-> IdleUpd]
  /\ last' = "nothing"
  /\ initRuns' = 0
  /\ preRestart' = clientVersionMap
  /\ UNCHANGED <<db, cached, server>>

\* The steps of the driver; the asset group model is left alone.
Next ==
  \/ OnFetch /\ UNCHANGED <<assetVars, dataVars, idleVars, versionVars, appVars>>
  \/ HandleFetchResume /\ UNCHANGED <<assetVars, dataVars, idleVars, versionVars, appVars>>
  \/ HandleFetchServe /\ UNCHANGED <<assetVars, dataVars, idleVars, versionVars, appVars>>
  \/ InitRead /\ UNCHANGED <<assetVars, dataVars, idleVars, versionVars, appVars>>
  \/ InitFetchManifest /\ UNCHANGED <<assetVars, dataVars, idleVars, versionVars, appVars>>
  \/ InitWrite /\ UNCHANGED <<assetVars, dataVars, idleVars, versionVars, appVars>>
  \/ VersionInit /\ UNCHANGED <<assetVars, dataVars, idleVars, versionVars, appVars>>
  \/ InitFinish /\ UNCHANGED <<assetVars, dataVars, idleVars, versionVars, appVars>>
  \/ CheckForUpdate /\ UNCHANGED <<assetVars, dataVars, idleVars, versionVars, appVars>>
  \/ UpdateFetched /\ UNCHANGED <<assetVars, dataVars, idleVars, versionVars, appVars>>
  \/ UpdateInitialized /\ UNCHANGED <<assetVars, dataVars, idleVars, versionVars, appVars>>
  \/ UpdateSynced /\ UNCHANGED <<assetVars, dataVars, idleVars, versionVars, appVars>>
  \/ ServerChange /\ UNCHANGED <<assetVars, dataVars, idleVars, versionVars, appVars>>

\* The driver of one worker generation, on any control table it may find.
Spec == Init /\ [][Next]_vars

\* A first installation (no control table, no caches) followed by any number of
\* worker generations on the same store.
InitFresh == Init /\ db = NoDb /\ cached = {}

NextRestart == Next \/ (Restart /\ UNCHANGED <<assetVars, dataVars, idleVars, versionVars, appVars>>)

SpecRestart == InitFresh /\ [][NextRestart]_vars

\* The worker is terminated while initialize() waits for its three writes of
\* the control table: any of the writes may have reached storage.  The next
\* event starts a new Driver on the store.
InitWriteTerminated ==
  /\ init.pc = "write"
  /\ \E written \in SUBSET ControlKeys :
       db' = WriteKeys(db, written, init.manifests, init.assignments, init.latest)
  /\ state' = NORMAL
  /\ initialized' = "null"
  /\ clientVersionMap' = EmptyMap
  /\ versions' = {}
  /\ latestHash' = Null
  /\ init' = NoInit
  /\ vinit' = [h \in Hashes |-> "none"]
  /\ reqs' = NoReqs
  /\ upd' = [i \in UpdSlots |-> IdleUpd]
  /\ last' = "nothing"
  /\ initRuns' = 0
  /\ preRestart' = clientVersionMap
  /\ UNCHANGED <<cached, server>>

\* A first installation followed by any number of worker generations, each of
\* which may be terminated at any point of its initialization.
NextTerminate ==
  \/ OnFetch /\ UNCHANGED <<assetVars, dataVars, idleVars, versionVars, appVars>>
  \/ HandleFetchResume /\ UNCHANGED <<assetVars, dataVars, idleVars, versionVars, appVars>>
  \/ HandleFetchServe /\ UNCHANGED <<assetVars, dataVars, idleVars, versionVars, appVars>>
  \/ InitRead /\ UNCHANGED <<assetVars, dataVars, idleVars, versionVars, appVars>>
  \/ InitFetchManifest /\ UNCHANGED <<assetVars, dataVars, idleVars, versionVars, appVars>>
  \/ InitWrite /\ UNCHANGED <<assetVars, dataVars, idleVars, versionVars, appVars>>
  \/ VersionInit /\ UNCHANGED <<assetVars, dataVars, idleVars, versionVars, appVars>>
  \/ InitFinish /\ UNCHANGED <<assetVars, dataVars, idleVars, versionVars, appVars>>
  \/ ServerChange /\ UNCHANGED <<assetVars, dataVars, idleVars, versionVars, appVars>>
  \/ Restart /\ UNCHANGED <<assetVars, dataVars, idleVars, versionVars, appVars>>
  \/ InitWriteTerminated /\ UNCHANGED <<assetVars, dataVars, idleVars, versionVars, appVars>>

SpecTerminate == InitFresh /\ [][NextTerminate]_vars

\* A first installation whose application does not await its update checks.
NextOverlap == Next \/ (CheckForUpdateOverlapping /\ UNCHANGED <<assetVars, dataVars, idleVars, versionVars, appVars>>)

SpecOverlap == InitFresh /\ [][NextOverlap]_vars

\* ------------------------------------------------------------- AssetGroup

\* AssetGroup.needToRevalidate for a cached response with header cc and metadata
\* timestamp ts: "fresh", "stale", or "throw" (cacheAge is undefined when the
\* header has no max-age directive, and `cacheAge.length` is outside the try).
\* The mock responses have neither an Expires nor a Date header.
NeedToRevalidate(cc, ts, time) ==
  IF cc = "max-age"
  THEN IF ts = NoTs THEN "stale"
       ELSE IF time - ts < 0 \/ time - ts > MaxAge THEN "stale" ELSE "fresh"
  ELSE IF cc = "no-cache" THEN "throw"
  ELSE "stale"

\* Mutant: fetchAndCacheOnce without the inFlightRequests lookup.
NeverJoins(u, ifr) == FALSE

\* AssetGroup.fetchAndCacheOnce: another caching operation is under way for the url.
JoinsInFlight(u, ifr) == ifr[u] # NoCall

\* AssetGroup.fetchFromNetwork: the first response is OK but its hash is not the
\* canonical one, so a cache-busted request follows.
MakeCacheBustedRequest(u, r) == Hashed(u) /\ r.ok /\ Sha1(r.body) # HashTable[u]

\* Mutant: a lazy group that fetches its urls at initialization like a prefetch group.
InitFetchesAnyMode(md, c) == c[Listed] = NoRes

\* initializeFully without an update source: only a prefetch group goes through
\* config.urls, and it skips a url that is already cached.
InitFetches(md, c) == md = "prefetch" /\ c[Listed] = NoRes

\* The lowest free call slot.
FreeSlot(t) == calls[t].pc = "free" /\ \A j \in CallIds : j < t => calls[j].pc # "free"

\* A caller gets the outcome r of its call: group.handleFetch returns to a fetch
\* event, initializeFully settles, or maybeUpdate of a newer version puts what
\* lookupResourceWithHash gave it into its own cache.
Deliver(kind, u, r) ==
  /\ answered' = IF kind = "request" THEN [url |-> u, res |-> r] ELSE answered
  /\ groupInit' = IF kind = "init"
                  THEN IF r = Thrown THEN "rejected" ELSE "resolved"
                  ELSE groupInit
  /\ copied' = IF kind = "lookup" /\ r # Thrown THEN r ELSE copied

\* fetchAndCacheOnce up to its first await: join the operation in flight, or start
\* fetchFromNetwork and register it.
FetchAndCacheOnce(t, u, kind) ==
  IF JoinsInFlight(u, inFlightRequests)
  THEN LET o == inFlightRequests[u]
           settled == calls[o].pc \in {"put", "meta"}
       IN /\ calls' = [calls EXCEPT ![t] =
                         [pc |-> IF settled THEN "got" ELSE "joined", url |-> u,
                          kind |-> kind, res |-> IF settled THEN calls[o].res ELSE NoRes]]
          /\ UNCHANGED inFlightRequests
  ELSE /\ calls' = [calls EXCEPT ![t] = [pc |-> "net1", url |-> u, kind |-> kind,
                                         res |-> NoRes]]
       /\ inFlightRequests' = [inFlightRequests EXCEPT ![u] = t]

\* AssetGroup.handleFetch for a url of the group, called for a fetch event.
AssetRequest(u) ==
  \E t \in CallIds :
    /\ groupInit \in {"resolved", "rejected"}
    /\ FreeSlot(t)
    /\ LET c == assetCache[u]
       IN IF c # NoRes
          THEN LET v == IF Hashed(u) THEN "fresh"
                        ELSE NeedToRevalidate(c.cc, assetMeta[u], now)
               IN /\ v = "stale" => idleQueue < MaxIdle
                  /\ idleQueue' = IF v = "stale" THEN idleQueue + 1 ELSE idleQueue
                  /\ answered' = [url |-> u, res |-> IF v = "throw" THEN Thrown ELSE c]
                  /\ UNCHANGED <<calls, inFlightRequests>>
          ELSE /\ FetchAndCacheOnce(t, u, "request")
               /\ UNCHANGED <<idleQueue, answered>>
    /\ UNCHANGED <<mode, assetCache, assetMeta, assetServer, now, groupInit, copied>>

\* The fetchFromNetwork promise of owner t resolves with r: the joined calls get r;
\* the owner throws on a non-OK response (and the finally block unregisters the
\* operation) or goes on to cache it.
Resolve(t, r) ==
  LET u == calls[t].url
      gets(j) == j # t /\ calls[j].pc = "joined" /\ calls[j].url = u
  IN /\ calls' = [j \in CallIds |->
                    IF gets(j) THEN [calls[j] EXCEPT !.pc = "got", !.res = r]
                    ELSE IF j # t THEN calls[j]
                    ELSE IF r.ok THEN [calls[t] EXCEPT !.pc = "put", !.res = r]
                    ELSE FreeCall]
     /\ IF r.ok
        THEN UNCHANGED <<inFlightRequests, answered, groupInit, copied>>
        ELSE /\ inFlightRequests' = [inFlightRequests EXCEPT ![u] = NoCall]
             /\ Deliver(calls[t].kind, u, Thrown)

\* The first scope.fetch of fetchFromNetwork settles.
NetFirst ==
  \E t \in CallIds :
    /\ calls[t].pc = "net1"
    /\ LET r == assetServer[calls[t].url]
       IN IF MakeCacheBustedRequest(calls[t].url, r)
          THEN /\ calls' = [calls EXCEPT ![t].pc = "net2"]
               /\ UNCHANGED <<inFlightRequests, answered, groupInit, copied>>
          ELSE Resolve(t, r)
    /\ UNCHANGED <<mode, assetCache, assetMeta, idleQueue, assetServer, now>>

\* The cache-busted scope.fetch settles: fetchFromNetwork throws unless the
\* response is OK and has the canonical hash.
NetBust ==
  \E t \in CallIds :
    /\ calls[t].pc = "net2"
    /\ LET u == calls[t].url
           r == assetServer[u]
       IN IF r.ok /\ Sha1(r.body) = HashTable[u]
          THEN Resolve(t, r)
          ELSE /\ calls' = [j \in CallIds |->
                              IF j = t THEN FreeCall
                              ELSE IF calls[j].pc = "joined" /\ calls[j].url = u
                                   THEN [calls[j] EXCEPT !.pc = "got", !.res = Thrown]
                                   ELSE calls[j]]
               /\ inFlightRequests' = [inFlightRequests EXCEPT ![u] = NoCall]
               /\ Deliver(calls[t].kind, u, Thrown)
    /\ UNCHANGED <<mode, assetCache, assetMeta, idleQueue, assetServer, now>>

\* cache.put of the owner completes; for a hashed url fetchAndCacheOnce returns.
CachePut ==
  \E t \in CallIds :
    /\ calls[t].pc = "put"
    /\ LET u == calls[t].url
       IN /\ assetCache' = [assetCache EXCEPT ![u] = calls[t].res]
          /\ IF Hashed(u)
             THEN /\ calls' = [calls EXCEPT ![t] = FreeCall]
                  /\ inFlightRequests' = [inFlightRequests EXCEPT ![u] = NoCall]
                  /\ Deliver(calls[t].kind, u, calls[t].res)
             ELSE /\ calls' = [calls EXCEPT ![t].pc = "meta"]
                  /\ UNCHANGED <<inFlightRequests, answered, groupInit, copied>>
    /\ UNCHANGED <<mode, assetMeta, idleQueue, assetServer, now>>

\* The timestamp of an unhashed url is written and fetchAndCacheOnce returns.
MetaWrite ==
  \E t \in CallIds :
    /\ calls[t].pc = "meta"
    /\ LET u == calls[t].url
       IN /\ assetMeta' = [assetMeta EXCEPT ![u] = now]
          /\ calls' = [calls EXCEPT ![t] = FreeCall]
          /\ inFlightRequests' = [inFlightRequests EXCEPT ![u] = NoCall]
          /\ Deliver(calls[t].kind, u, calls[t].res)
    /\ UNCHANGED <<mode, assetCache, idleQueue, assetServer, now>>

\* A call that joined an operation in flight returns what the operation gave.
JoinReturn ==
  \E t \in CallIds :
    /\ calls[t].pc = "got"
    /\ calls' = [calls EXCEPT ![t] = FreeCall]
    /\ Deliver(calls[t].kind, calls[t].url, calls[t].res)
    /\ UNCHANGED <<mode, assetCache, assetMeta, inFlightRequests, idleQueue,
                   assetServer, now>>

\* IdleScheduler.execute: every queued revalidation calls fetchAndCacheOnce; the
\* first may start the operation, the others join it.  Their results are dropped.
IdleExecute ==
  /\ idleQueue > 0
  /\ idleQueue' = 0
  /\ IF JoinsInFlight(Unhashed, inFlightRequests)
     THEN UNCHANGED <<calls, inFlightRequests>>
     ELSE \E t \in CallIds : FreeSlot(t) /\ FetchAndCacheOnce(t, Unhashed, "idle")
  /\ UNCHANGED <<mode, assetCache, assetMeta, assetServer, now, groupInit, answered,
                 copied>>

\* PrefetchAssetGroup / LazyAssetGroup.initializeFully without an update source.
AssetInitialize ==
  /\ groupInit = "none"
  /\ IF InitFetches(mode, assetCache)
     THEN /\ groupInit' = "running"
          /\ \E t \in CallIds : FreeSlot(t) /\ FetchAndCacheOnce(t, Listed, "init")
     ELSE /\ groupInit' = "resolved"
          /\ UNCHANGED <<calls, inFlightRequests>>
  /\ UNCHANGED <<mode, assetCache, assetMeta, idleQueue, assetServer, now, answered,
                 copied>>

\* maybeUpdate of a newer version whose hash table has the same hash for the listed
\* url: lookupResourceWithHash runs this version's handleFetch, and the response is
\* put into the newer version's cache.
AssetLookup ==
  \E t \in CallIds :
    /\ groupInit \in {"resolved", "rejected"}
    /\ copied = NoRes
    /\ FreeSlot(t)
    /\ IF assetCache[Listed] # NoRes
       THEN /\ copied' = assetCache[Listed]
            /\ UNCHANGED <<calls, inFlightRequests>>
       ELSE /\ FetchAndCacheOnce(t, Listed, "lookup")
            /\ UNCHANGED copied
    /\ UNCHANGED <<mode, assetCache, assetMeta, idleQueue, assetServer, now, groupInit,
                   answered>>

\* Adapter.time advances.
Tick ==
  /\ now < MaxTime
  /\ now' = now + 1
  /\ UNCHANGED <<mode, assetCache, assetMeta, inFlightRequests, calls, idleQueue,
                 assetServer, groupInit, answered, copied>>

\* The server changes what it answers for url u.
AssetServerChange(u) ==
  /\ \E r \in ServedAs(u) \ {assetServer[u]} :
       assetServer' = [assetServer EXCEPT ![u] = r]
  /\ UNCHANGED <<mode, assetCache, assetMeta, inFlightRequests, calls, idleQueue,
                 now, groupInit, answered, copied>>

\* The worker restarts: a new AppVersion and group on the same caches.
AssetRestart ==
  /\ groupInit \in {"resolved", "rejected"}
  /\ inFlightRequests' = [u \in AssetUrls |-> NoCall]
  /\ calls' = [t \in CallIds |-> FreeCall]
  /\ idleQueue' = 0
  /\ groupInit' = "none"
  /\ answered' = [url |-> Listed, res |-> NoRes]
  /\ copied' = NoRes
  /\ UNCHANGED <<mode, assetCache, assetMeta, assetServer, now>>

\* The driver is not exercised.
DriverParked == DriverInit /\ db = NoDb /\ cached = {} /\ server.kind = "offline"

driverAll == <<state, initialized, clientVersionMap, versions, latestHash, db, cached,
               server, init, vinit, reqs, upd, last, initRuns, preRestart>>

\* The listed (hashed) url of a prefetch or lazy group: initialization, requests,
\* lookups by an updating version and restarts, on a changing server.
InitAssets ==
  /\ DriverParked
  /\ IdleParked /\ VersionParked /\ AppParked
  /\ DataParked
  /\ \E md \in {"prefetch", "lazy"}, r \in ServedAs(Listed) :
       AssetStart(md, EmptyStore, EmptyMeta, [u \in AssetUrls |-> IF u = Listed THEN r ELSE NotFound])

NextAssets ==
  \/ AssetInitialize /\ UNCHANGED <<driverAll, dataVars, idleVars, versionVars, appVars>>
  \/ AssetRequest(Listed) /\ UNCHANGED <<driverAll, dataVars, idleVars, versionVars, appVars>>
  \/ NetFirst /\ UNCHANGED <<driverAll, dataVars, idleVars, versionVars, appVars>>
  \/ NetBust /\ UNCHANGED <<driverAll, dataVars, idleVars, versionVars, appVars>>
  \/ CachePut /\ UNCHANGED <<driverAll, dataVars, idleVars, versionVars, appVars>>
  \/ JoinReturn /\ UNCHANGED <<driverAll, dataVars, idleVars, versionVars, appVars>>
  \/ AssetLookup /\ UNCHANGED <<driverAll, dataVars, idleVars, versionVars, appVars>>
  \/ AssetServerChange(Listed) /\ UNCHANGED <<driverAll, dataVars, idleVars, versionVars, appVars>>
  \/ AssetRestart /\ UNCHANGED <<driverAll, dataVars, idleVars, versionVars, appVars>>

SpecAssets == InitAssets /\ [][NextAssets]_vars

\* The unhashed url of an initialized group: requests and idle revalidations as
\* the clock advances, on a changing server.
InitUnhashed ==
  /\ DriverParked
  /\ IdleParked /\ VersionParked /\ AppParked
  /\ DataParked
  /\ \E r \in ServedAs(Unhashed) :
       AssetStart("lazy", EmptyStore, EmptyMeta, [u \in AssetUrls |-> IF u = Unhashed THEN r ELSE NotFound])

NextUnhashed ==
  \/ AssetInitialize /\ UNCHANGED <<driverAll, dataVars, idleVars, versionVars, appVars>>
  \/ AssetRequest(Unhashed) /\ UNCHANGED <<driverAll, dataVars, idleVars, versionVars, appVars>>
  \/ NetFirst /\ UNCHANGED <<driverAll, dataVars, idleVars, versionVars, appVars>>
  \/ CachePut /\ UNCHANGED <<driverAll, dataVars, idleVars, versionVars, appVars>>
  \/ MetaWrite /\ UNCHANGED <<driverAll, dataVars, idleVars, versionVars, appVars>>
  \/ JoinReturn /\ UNCHANGED <<driverAll, dataVars, idleVars, versionVars, appVars>>
  \/ IdleExecute /\ UNCHANGED <<driverAll, dataVars, idleVars, versionVars, appVars>>
  \/ Tick /\ UNCHANGED <<driverAll, dataVars, idleVars, versionVars, appVars>>
  \/ AssetServerChange(Unhashed) /\ UNCHANGED <<driverAll, dataVars, idleVars, versionVars, appVars>>

SpecUnhashed == InitUnhashed /\ [][NextUnhashed]_vars

\* ------------------------------------------------------------- DataGroup

\* The LruList count stays within the modelled range.
CountInRange(st) == st.count >= 0 - MaxSkew /\ st.count <= Cardinality(DataUrls) + MaxSkew

\* What scope.fetch answers for a url of the group.
DataFetch == IF dataServer THEN DataOk ELSE NotFound

\* handleFetch of request i returns res (a late request has already returned the
\* 504 and what is left of it is the background task, which returns nothing).
DataReturn(i, res) ==
  /\ dataReqs' = [dataReqs EXCEPT ![i] = FreeReq]
  /\ dataAnswered' = IF dataReqs[i].late THEN dataAnswered ELSE res

\* DataGroup.handleFetch is called for a matching url.  A GET or HEAD goes on to
\* cache.match; a mutating request removes the url from the LRU at once.  GETs and
\* HEADs overlap; the application sends a mutating request when it has no other
\* request of the group under way, and waits for its answer.
DataRequest(urls) ==
  \E i \in DataReqIds, u \in urls, m \in Methods :
    /\ dataReqs[i].pc = "free"
    /\ \A j \in DataReqIds : j < i => dataReqs[j].pc # "free"
    /\ \A j \in DataReqIds : ~dataReqs[j].mutating
    /\ m \notin {"GET", "HEAD"} => \A j \in DataReqIds : dataReqs[j].pc = "free"
    /\ IF m \in {"GET", "HEAD"}
       THEN /\ dataReqs' = [dataReqs EXCEPT ![i] = [FreeReq EXCEPT !.pc = "match", !.url = u]]
            /\ UNCHANGED <<lru, dataAnswered>>
       ELSE LET r == LruRemove(lru, u)
            IN /\ CountInRange(r.state)
               /\ lru' = r.state
               /\ IF ~r.ok
                  THEN dataReqs' = dataReqs /\ dataAnswered' = Thrown
                  ELSE /\ dataReqs' = [dataReqs EXCEPT ![i] =
                                         [FreeReq EXCEPT !.pc = IF r.ret THEN "clearCache" ELSE "syncLru",
                                                         !.url = u, !.mutating = TRUE, !.target = u]]
                       /\ UNCHANGED dataAnswered
    /\ UNCHANGED <<lruTable, dataCache, ageTable, dataServer, dataTime, maxSize>>

\* cache.match(req) settles: on a miss the request goes to the network.
DataMatch ==
  \E i \in DataReqIds :
    /\ dataReqs[i].pc = "match"
    /\ dataReqs' = [dataReqs EXCEPT ![i].pc =
                      IF dataCache[dataReqs[i].url] # NoRes THEN "age" ELSE "fetch"]
    /\ UNCHANGED <<lru, lruTable, dataCache, ageTable, dataServer, dataTime, maxSize, dataAnswered>>

\* Is a response recorded at time age young enough at time time?
YoungEnough(age, time) == age # NoTs /\ time - age <= maxAge

\* ageTable.read settles for a cache hit: a young response is marked accessed and
\* returned; otherwise (no age record, too old, or accessed() failed) the url is
\* removed from the LRU and clearCacheForUrl starts.
DataAge ==
  \E i \in DataReqIds :
    /\ dataReqs[i].pc = "age"
    /\ LET u == dataReqs[i].url
           young == YoungEnough(ageTable[u], dataTime)
           a == LruAccessed(lru, u)
           r == LruRemove(IF young THEN a.state ELSE lru, u)
       IN IF young /\ a.ok
          THEN /\ CountInRange(a.state)
               /\ lru' = a.state
               /\ DataReturn(i, dataCache[u])
          ELSE /\ CountInRange(r.state)
               /\ lru' = r.state
               /\ IF r.ok
                  THEN /\ dataReqs' = [dataReqs EXCEPT ![i].pc = "clearCache", ![i].target = u]
                       /\ UNCHANGED dataAnswered
                  ELSE DataReturn(i, Thrown)
    /\ UNCHANGED <<lruTable, dataCache, ageTable, dataServer, dataTime, maxSize>>

\* clearCacheForUrl(target): the GET and HEAD entries of the url are deleted.  The
\* pc tells the caller: "clear..." a request that dropped its own url (expired, or
\* mutating), "evict..." cacheResponse that popped the LRU tail.
DataClearCache ==
  \E i \in DataReqIds :
    /\ dataReqs[i].pc \in {"clearCache", "evictCache"}
    /\ dataCache' = [dataCache EXCEPT ![dataReqs[i].target] = NoRes]
    /\ dataReqs' = [dataReqs EXCEPT ![i].pc =
                      IF dataReqs[i].pc = "clearCache" THEN "clearAge" ELSE "evictAge"]
    /\ UNCHANGED <<lru, lruTable, ageTable, dataServer, dataTime, maxSize, dataAnswered>>

\* cacheResponse from lru.accessed(req.url) on, for request i on LRU state st.
DataAccessed(i, st) ==
  LET a == LruAccessed(st, dataReqs[i].url)
  IN /\ CountInRange(a.state)
     /\ lru' = a.state
     /\ IF a.ok
        THEN /\ dataReqs' = [dataReqs EXCEPT ![i].pc = "put", ![i].target = NoUrl,
                                             ![i].waitUntil = AfterNetworkFetch(@)]
             /\ UNCHANGED dataAnswered
        ELSE DataReturn(i, Thrown)

\* clearCacheForUrl: the age record is deleted.  What follows depends on the
\* caller: a request that evicted its own expired url or a mutating request syncs
\* the LRU; cacheResponse, having evicted the tail, marks its url accessed.
DataClearAge ==
  \E i \in DataReqIds :
    /\ dataReqs[i].pc \in {"clearAge", "evictAge"}
    /\ ageTable' = [ageTable EXCEPT ![dataReqs[i].target] = NoTs]
    /\ IF dataReqs[i].pc = "clearAge"
       THEN /\ dataReqs' = [dataReqs EXCEPT ![i].pc = "syncLru"]
            /\ UNCHANGED <<lru, dataAnswered>>
       ELSE DataAccessed(i, lru)
    /\ UNCHANGED <<lruTable, dataCache, dataServer, dataTime, maxSize>>

\* syncLru writes the LRU state to its table.  After it a request that evicted its
\* expired url goes to the network, a mutating request is forwarded to the network
\* (and returns its answer), and cacheResponse is finished.
DataSyncLru ==
  \E i \in DataReqIds :
    /\ dataReqs[i].pc \in {"syncLru", "syncCached"}
    /\ lruTable' = lru
    /\ IF dataReqs[i].pc = "syncCached" THEN DataReturn(i, DataOk)
       ELSE IF ~dataReqs[i].mutating
       THEN /\ dataReqs' = [dataReqs EXCEPT ![i].pc = "fetch", ![i].target = NoUrl]
            /\ UNCHANGED dataAnswered
       ELSE DataReturn(i, DataFetch)
    /\ UNCHANGED <<lru, dataCache, ageTable, dataServer, dataTime, maxSize>>

\* cacheResponse: `lru.size >= this.config.maxSize`
CacheFull(st) == st.count >= maxSize

\* The network answers request i (in time, or late for the background task of a
\* request that timed out) and cacheResponse runs up to its first await: a non-OK
\* response is not cached; when the LRU is full its tail is popped and cleared
\* first; otherwise the url is marked accessed.
DataNetwork ==
  \E i \in DataReqIds :
    /\ dataReqs[i].pc = "fetch"
    /\ LET p == LruPop(lru)
       IN IF ~DataFetch.ok
          THEN DataReturn(i, DataFetch) /\ lru' = lru
          ELSE IF ~CacheFull(lru) THEN DataAccessed(i, lru)
          ELSE IF ~p.ok
          THEN /\ CountInRange(p.state)
               /\ lru' = p.state
               /\ DataReturn(i, Thrown)
          ELSE IF p.ret = NoUrl THEN DataAccessed(i, p.state)
          ELSE /\ CountInRange(p.state)
               /\ lru' = p.state
               /\ dataReqs' = [dataReqs EXCEPT ![i].pc = "evictCache", ![i].target = p.ret,
                                               ![i].waitUntil = AfterNetworkFetch(@)]
               /\ UNCHANGED dataAnswered
    /\ UNCHANGED <<lruTable, dataCache, ageTable, dataServer, dataTime, maxSize>>

\* The timer of timeoutMs fires before the network answers: the request returns
\* the synthetic 504 (which cacheResponse does not cache) and the fetch goes on
\* in the background, in an async function whose promise goes to ctx.waitUntil.
DataTimeout ==
  \E i \in DataReqIds :
    /\ dataReqs[i].pc = "fetch"
    /\ ~dataReqs[i].late
    /\ dataReqs' = [dataReqs EXCEPT ![i].late = TRUE, ![i].waitUntil = "pending"]
    /\ dataAnswered' = GatewayTimeout
    /\ UNCHANGED <<lru, lruTable, dataCache, ageTable, dataServer, dataTime, maxSize>>

\* cacheResponse: cache.put(req, res)
DataPut ==
  \E i \in DataReqIds :
    /\ dataReqs[i].pc = "put"
    /\ dataCache' = [dataCache EXCEPT ![dataReqs[i].url] = DataOk]
    /\ dataReqs' = [dataReqs EXCEPT ![i].pc = "writeAge"]
    /\ UNCHANGED <<lru, lruTable, ageTable, dataServer, dataTime, maxSize, dataAnswered>>

\* cacheResponse: ageTable.write(req.url, {age: this.adapter.time})
DataAgeWrite ==
  \E i \in DataReqIds :
    /\ dataReqs[i].pc = "writeAge"
    /\ ageTable' = [ageTable EXCEPT ![dataReqs[i].url] = dataTime]
    /\ dataReqs' = [dataReqs EXCEPT ![i].pc = "syncCached"]
    /\ UNCHANGED <<lru, lruTable, dataCache, dataServer, dataTime, maxSize, dataAnswered>>

\* Adapter.time advances.
DataTick ==
  /\ dataTime < MaxDataTime
  /\ dataTime' = dataTime + 1
  /\ UNCHANGED <<lru, lruTable, dataCache, ageTable, dataReqs, dataServer, dataAnswered, maxSize>>

\* The server starts or stops serving the group's urls.
DataServerChange ==
  /\ dataServer' = ~dataServer
  /\ UNCHANGED <<lru, lruTable, dataCache, ageTable, dataReqs, dataTime, dataAnswered, maxSize>>

\* A data group on empty stores, the server serving its urls: overlapping GET and
\* HEAD requests and mutating requests.
InitData ==
  /\ DriverParked
  /\ IdleParked /\ VersionParked /\ AppParked
  /\ AssetParked
  /\ DataStart(1)
  /\ dataServer = TRUE

NextData ==
  \/ DataRequest(OverlapUrls) /\ UNCHANGED <<driverAll, assetVars, idleVars, versionVars, appVars>>
  \/ DataMatch /\ UNCHANGED <<driverAll, assetVars, idleVars, versionVars, appVars>>
  \/ DataAge /\ UNCHANGED <<driverAll, assetVars, idleVars, versionVars, appVars>>
  \/ DataClearCache /\ UNCHANGED <<driverAll, assetVars, idleVars, versionVars, appVars>>
  \/ DataClearAge /\ UNCHANGED <<driverAll, assetVars, idleVars, versionVars, appVars>>
  \/ DataSyncLru /\ UNCHANGED <<driverAll, assetVars, idleVars, versionVars, appVars>>
  \/ DataNetwork /\ UNCHANGED <<driverAll, assetVars, idleVars, versionVars, appVars>>
  \/ DataTimeout /\ UNCHANGED <<driverAll, assetVars, idleVars, versionVars, appVars>>
  \/ DataPut /\ UNCHANGED <<driverAll, assetVars, idleVars, versionVars, appVars>>
  \/ DataAgeWrite /\ UNCHANGED <<driverAll, assetVars, idleVars, versionVars, appVars>>

SpecData == InitData /\ [][NextData]_vars

\* The application sends a request when the group has nothing under way.
DataRequestAlone(urls) ==
  /\ \A j \in DataReqIds : dataReqs[j].pc = "free"
  /\ DataRequest(urls)

\* The same group used by one request at a time, as the clock advances, on a
\* server that comes and goes.
NextDataSeq ==
  \/ DataRequestAlone(OverlapUrls) /\ UNCHANGED <<driverAll, assetVars, idleVars, versionVars, appVars>>
  \/ DataMatch /\ UNCHANGED <<driverAll, assetVars, idleVars, versionVars, appVars>>
  \/ DataAge /\ UNCHANGED <<driverAll, assetVars, idleVars, versionVars, appVars>>
  \/ DataClearCache /\ UNCHANGED <<driverAll, assetVars, idleVars, versionVars, appVars>>
  \/ DataClearAge /\ UNCHANGED <<driverAll, assetVars, idleVars, versionVars, appVars>>
  \/ DataSyncLru /\ UNCHANGED <<driverAll, assetVars, idleVars, versionVars, appVars>>
  \/ DataNetwork /\ UNCHANGED <<driverAll, assetVars, idleVars, versionVars, appVars>>
  \/ DataTimeout /\ UNCHANGED <<driverAll, assetVars, idleVars, versionVars, appVars>>
  \/ DataPut /\ UNCHANGED <<driverAll, assetVars, idleVars, versionVars, appVars>>
  \/ DataAgeWrite /\ UNCHANGED <<driverAll, assetVars, idleVars, versionVars, appVars>>
  \/ DataTick /\ UNCHANGED <<driverAll, assetVars, idleVars, versionVars, appVars>>
  \/ DataServerChange /\ UNCHANGED <<driverAll, assetVars, idleVars, versionVars, appVars>>

\* A data group of any of the sizes on empty stores, the server serving its urls.
InitDataSeq ==
  /\ DriverParked
  /\ IdleParked /\ VersionParked /\ AppParked
  /\ AssetParked
  /\ \E size \in 1..MaxSizes : DataStart(size)
  /\ dataServer = TRUE

SpecDataSeq == InitDataSeq /\ [][NextDataSeq]_vars

\* The same group used by one request at a time for any of its urls, within
\* maxAge of the start, the server serving them.
NextDataLru ==
  \/ DataRequestAlone(DataUrls) /\ UNCHANGED <<driverAll, assetVars, idleVars, versionVars, appVars>>
  \/ DataMatch /\ UNCHANGED <<driverAll, assetVars, idleVars, versionVars, appVars>>
  \/ DataAge /\ UNCHANGED <<driverAll, assetVars, idleVars, versionVars, appVars>>
  \/ DataClearCache /\ UNCHANGED <<driverAll, assetVars, idleVars, versionVars, appVars>>
  \/ DataClearAge /\ UNCHANGED <<driverAll, assetVars, idleVars, versionVars, appVars>>
  \/ DataSyncLru /\ UNCHANGED <<driverAll, assetVars, idleVars, versionVars, appVars>>
  \/ DataNetwork /\ UNCHANGED <<driverAll, assetVars, idleVars, versionVars, appVars>>
  \/ DataTimeout /\ UNCHANGED <<driverAll, assetVars, idleVars, versionVars, appVars>>
  \/ DataPut /\ UNCHANGED <<driverAll, assetVars, idleVars, versionVars, appVars>>
  \/ DataAgeWrite /\ UNCHANGED <<driverAll, assetVars, idleVars, versionVars, appVars>>

SpecDataLru == InitDataSeq /\ [][NextDataLru]_vars

\* ------------------------------------------------------------- LruList alone

\* A caller applies one operation to the LruList; a TypeError leaves the state as
\* the operation had changed it when it threw.
LruCall(r) ==
  /\ CountInRange(r.state)
  /\ lru' = r.state
  /\ UNCHANGED <<lruTable, dataCache, ageTable, dataReqs, dataServer, dataTime,
                 dataAnswered, maxSize>>

CallAccessed == \E u \in DataUrls : LruCall(LruAccessed(lru, u))
CallPop == LruCall(LruPop(lru))
CallRemove == \E u \in DataUrls : LruCall(LruRemove(lru, u))

InitLru == DriverParked /\ AssetParked /\ DataParked /\ IdleParked /\ VersionParked /\ AppParked

NextLru ==
  \/ CallAccessed /\ UNCHANGED <<driverAll, assetVars, idleVars, versionVars, appVars>>
  \/ CallPop /\ UNCHANGED <<driverAll, assetVars, idleVars, versionVars, appVars>>
  \/ CallRemove /\ UNCHANGED <<driverAll, assetVars, idleVars, versionVars, appVars>>

SpecLru == InitLru /\ [][NextLru]_vars

\* ------------------------------------------------------------- IdleScheduler

Count(q, fate) == Cardinality({k \in 1..Len(q) : q[k] = fate})

\* IdleScheduler.schedule: the task joins the queue, and the empty promise is
\* armed unless it is armed already.
Schedule ==
  \E fate \in TaskFates :
    /\ taskCount < MaxTasks
    /\ taskCount' = taskCount + 1
    /\ queue' = Append(queue, fate)
    /\ empty' = IF emptyResolve THEN empty ELSE "pending"
    /\ emptyResolve' = TRUE
    /\ UNCHANGED <<scheduled, cancel, triggers, running>>

\* IdleScheduler.trigger up to its await: with an empty queue it returns, else it
\* marks the current ScheduledRun cancelled, installs its own and starts the timer.
Trigger ==
  \E i \in TriggerIds :
    /\ triggers[i].pc = "unused"
    /\ \A j \in TriggerIds : j < i => triggers[j].pc # "unused"
    /\ IF queue = <<>>
       THEN /\ triggers' = [triggers EXCEPT ![i].pc = "returned"]
            /\ UNCHANGED <<scheduled, cancel>>
       ELSE /\ triggers' = [triggers EXCEPT ![i].pc = "timer"]
            /\ cancel' = [j \in TriggerIds |-> IF j = i THEN FALSE
                                                ELSE IF j = scheduled THEN TRUE
                                                ELSE cancel[j]]
            /\ scheduled' = i
    /\ UNCHANGED <<queue, empty, emptyResolve, running, taskCount>>

\* IdleScheduler.execute from the loop test to the await of Promise.all, for the
\* call of trigger() i: with an empty queue execute() and trigger() return;
\* otherwise every queued task is called (one that throws counts as resolved) and
\* the queue is emptied.
ExecuteLoop(i, ran) ==
  IF queue = <<>>
  THEN /\ triggers' = [triggers EXCEPT ![i] = [pc |-> "returned", ran |-> ran]]
       /\ UNCHANGED <<queue, running>>
  ELSE /\ triggers' = [triggers EXCEPT ![i] = [pc |-> "wave", ran |-> ran]]
       /\ running' = [running EXCEPT ![i] = [ok |-> @.ok + Count(queue, "ok"),
                                             rejects |-> @.rejects + Count(queue, "rejects")]]
       /\ queue' = <<>>

\* The timer of trigger() call i expires (timers of one threshold expire in the
\* order they were started): the call reads this.scheduled.cancel, a TypeError
\* when this.scheduled is null; a cancelled run returns, another calls execute().
TimerExpires ==
  \E i \in TriggerIds :
    /\ triggers[i].pc = "timer"
    /\ \A j \in TriggerIds : j < i => triggers[j].pc # "timer"
    /\ IF scheduled = NoRun
       THEN /\ triggers' = [triggers EXCEPT ![i].pc = "threw"]
            /\ UNCHANGED <<scheduled, queue, running>>
       ELSE /\ scheduled' = NoRun
            /\ IF cancel[scheduled]
               THEN /\ triggers' = [triggers EXCEPT ![i].pc = "returned"]
                    /\ UNCHANGED <<queue, running>>
               ELSE ExecuteLoop(i, TRUE)
    /\ UNCHANGED <<cancel, empty, emptyResolve, taskCount>>

\* The promise of a running task settles.  A rejection rejects the Promise.all
\* its execute() awaits, and with it execute() and trigger().
TaskSettles ==
  \E i \in TriggerIds, fate \in {"ok", "rejects"} :
    /\ running[i][fate] > 0
    /\ running' = [running EXCEPT ![i][fate] = @ - 1]
    /\ triggers' = IF fate = "rejects" /\ triggers[i].pc = "wave"
                   THEN [triggers EXCEPT ![i].pc = "rejected"]
                   ELSE triggers
    /\ UNCHANGED <<queue, scheduled, cancel, empty, emptyResolve, taskCount>>

\* Promise.all resolves for the wave of call i: the empty promise is resolved and
\* replaced, and the loop goes on.
WaveDone ==
  \E i \in TriggerIds :
    /\ triggers[i].pc = "wave"
    /\ running[i] = NoTasks
    /\ emptyResolve' = FALSE
    /\ empty' = "resolved"
    /\ ExecuteLoop(i, TRUE)
    /\ UNCHANGED <<scheduled, cancel, taskCount>>

InitIdle == DriverParked /\ AssetParked /\ DataParked /\ IdleStart /\ VersionParked /\ AppParked

NextIdle ==
  \/ Schedule /\ UNCHANGED <<driverAll, assetVars, dataVars, versionVars, appVars>>
  \/ Trigger /\ UNCHANGED <<driverAll, assetVars, dataVars, versionVars, appVars>>
  \/ TimerExpires /\ UNCHANGED <<driverAll, assetVars, dataVars, versionVars, appVars>>
  \/ TaskSettles /\ UNCHANGED <<driverAll, assetVars, dataVars, versionVars, appVars>>
  \/ WaveDone /\ UNCHANGED <<driverAll, assetVars, dataVars, versionVars, appVars>>

SpecIdle == InitIdle /\ [][NextIdle]_vars

\* ------------------------------------------------------------- AppVersion

\* An await that never throws.
AwaitedNeverThrows(promise) == "go"

\* How an `await` of a settled promise continues.
Awaited(promise) == IF promise = "rejected" THEN "throw" ELSE "go"

\* How initializeFully of a group of mode md can end: a lazy group without an
\* update source returns at once; any other has to fetch or copy its resources.
Outcomes(md, from) ==
  IF md = "lazy" /\ ~from THEN {"done"} ELSE {"done", "failed"}

\* AppVersion.initializeFully is called: reduce calls the callback of every
\* group, and each runs up to its `await previous`.
InitializeFully ==
  /\ fully = "unused"
  /\ fully' = "awaiting"
  /\ steps' = [k \in GroupIds |-> "waiting"]
  /\ UNCHANGED <<okay, groupModes, updateFrom, groupRun>>

\* The promise the callback of group k awaits: Promise.resolve() for the first
\* group, the callback's promise of the group declared before it otherwise.
Previous(k) == IF k = 1 THEN "resolved" ELSE steps[k - 1]

\* `await previous` settles in the callback of group k: a rejection is thrown
\* on, otherwise the group's initializeFully is called.
StepResumes ==
  \E k \in GroupIds :
    /\ steps[k] = "waiting"
    /\ Previous(k) \in {"resolved", "rejected"}
    /\ IF Awaited(Previous(k)) = "throw"
       THEN /\ steps' = [steps EXCEPT ![k] = "rejected"]
            /\ UNCHANGED groupRun
       ELSE /\ steps' = [steps EXCEPT ![k] = "running"]
            /\ groupRun' = [groupRun EXCEPT ![k] = "running"]
    /\ UNCHANGED <<okay, groupModes, updateFrom, fully>>

\* initializeFully of group k settles, and with it the promise of its callback.
GroupSettles ==
  \E k \in GroupIds : \E end \in Outcomes(groupModes[k], updateFrom) :
    /\ groupRun[k] = "running"
    /\ groupRun' = [groupRun EXCEPT ![k] = end]
    /\ steps' = [steps EXCEPT ![k] = IF end = "done" THEN "resolved" ELSE "rejected"]
    /\ UNCHANGED <<okay, groupModes, updateFrom, fully>>

\* The await of the reduce result settles: initializeFully returns, or sets
\* _okay to false and throws the error on.
FullySettles ==
  /\ fully = "awaiting"
  /\ steps[NumGroups] \in {"resolved", "rejected"}
  /\ IF Awaited(steps[NumGroups]) = "throw"
     THEN okay' = FALSE /\ fully' = "rejected"
     ELSE okay' = okay /\ fully' = "resolved"
  /\ UNCHANGED <<groupModes, updateFrom, groupRun, steps>>

InitVersion ==
  /\ DriverParked
  /\ AssetParked
  /\ DataParked
  /\ AppParked
  /\ IdleParked
  /\ \E ms \in [GroupIds -> GroupModes], from \in BOOLEAN : VersionStart(ms, from)

NextVersion ==
  \/ InitializeFully /\ UNCHANGED <<driverAll, assetVars, dataVars, idleVars, appVars>>
  \/ StepResumes /\ UNCHANGED <<driverAll, assetVars, dataVars, idleVars, appVars>>
  \/ GroupSettles /\ UNCHANGED <<driverAll, assetVars, dataVars, idleVars, appVars>>
  \/ FullySettles /\ UNCHANGED <<driverAll, assetVars, dataVars, idleVars, appVars>>

SpecVersion == InitVersion /\ [][NextVersion]_vars

\* The same, every pending continuation being run in the end (the promise jobs
\* of the event loop, and group initializations that settle).
SpecVersionLive == SpecVersion /\ WF_vars(NextVersion)

\* ------------------------------------------------------------- versions, lookups

\* The keys of Driver.versions.
Constructed == {versionOrder[k] : k \in 1..Len(versionOrder)}

\* `this.versions.set(hash, new AppVersion(...))`: the constructors of the
\* version's groups open their stores.
NewAppVersion ==
  \E h \in Hashes \ Constructed :
    /\ versionOrder' = Append(versionOrder, h)
    /\ opened' = [opened EXCEPT ![h] = VersionStores(h, manifestOf[h])]
    /\ UNCHANGED <<manifestOf, handle, invoked, lookup>>

\* Mutant: the reduce callbacks never pass a found response through.
PassesNever(resp) == FALSE

\* AppVersion.handleFetch, `if (resp !== null) return resp` of a reduce callback.
PassesThrough(resp) == resp.kind # "null"

\* AppVersion.handleFetch: where the call stands when group k of the list phase
\* has given r and the callback of the next group did not pass it through: at the
\* next asset group; after the last one at the return of a non-null asset
\* response or at the first data group; then at the next data group; at the end.
AfterGroup(m, phase, k, r) ==
  IF phase = "assets" /\ k < Len(m.assetGroups) THEN <<"assets", k + 1>>
  ELSE IF phase = "assets" /\ r.kind # "null" THEN <<"done", 0>>
  ELSE IF phase = "assets"
  THEN IF Len(m.dataGroups) > 0 THEN <<"data", 1>> ELSE <<"done", 0>>
  ELSE IF k < Len(m.dataGroups) THEN <<"data", k + 1>>
  ELSE <<"done", 0>>

\* The call of handleFetch of version h (made by `by`) moves on to n: it invokes
\* the handler of the group n names, or returns r; inv is the record of the
\* handlers invoked so far.
Enter(h, by, n, r, inv) ==
  /\ handle' = [handle EXCEPT ![h] =
                  [pc |-> n[1], at |-> n[2], by |-> by,
                   res |-> IF n[1] = "done" THEN r ELSE NoAnswer]]
  /\ invoked' = [invoked EXCEPT ![h] =
                   IF n[1] = "done" THEN inv
                   ELSE Append(inv, [group |-> n, answer |-> "pending"])]

\* AppVersion.handleFetch is called: the first callback awaits the null it
\* starts from.
StartHandleFetch(h, by) ==
  Enter(h, by, AfterGroup(manifestOf[h], "assets", 0, NoAnswer), NoAnswer, invoked[h])

\* Driver.handleFetch calls appVersion.handleFetch for a fetch event.
VersionHandleFetch ==
  \E h \in Constructed :
    /\ handle[h].pc = "idle"
    /\ StartHandleFetch(h, "event")
    /\ UNCHANGED <<manifestOf, versionOrder, opened, lookup>>

\* The handleFetch of the group a version waits for settles, and the following
\* callbacks run until the next handler is invoked or the call returns.
GroupHandlerSettles ==
  \E h \in Hashes, answer \in Answers :
    /\ handle[h].pc \in {"assets", "data"}
    /\ LET g == <<handle[h].pc, handle[h].at>>
           r == IF answer = "null" THEN NoAnswer
                ELSE IF answer = "response" THEN Response(h, g)
                ELSE Rejected
           inv == [invoked[h] EXCEPT ![Len(invoked[h])].answer = answer]
           n == IF r.kind = "rejected" \/ PassesThrough(r) THEN <<"done", 0>>
                ELSE AfterGroup(manifestOf[h], g[1], g[2], r)
       IN Enter(h, handle[h].by, n, r, inv)
    /\ UNCHANGED <<manifestOf, versionOrder, opened, lookup>>

\* Driver.lookupResourceWithHash is called (by maybeUpdate of a version that is
\* being initialized): the reduce runs over the versions known at the call.
LookupCall ==
  /\ lookup.pc = "unused"
  /\ lookup' = [NoLookup EXCEPT !.pc = "pending", !.over = versionOrder]
  /\ UNCHANGED <<manifestOf, versionOrder, opened, handle, invoked>>

\* Driver.lookupResourceWithHash, `if (await prev !== null) return prev`.
FoundAlready(prev) == prev.kind # "null"

\* Mutant: AppVersion.lookupResourceWithHash without the hash table checks.
HashIgnored(entry) == TRUE

\* AppVersion.lookupResourceWithHash: the version has the url with this hash.
HashMatches(entry) == entry = "same"

\* The reduce callback of the next version runs once the previous result is
\* there: a rejection or a response ends the lookup; otherwise the version is
\* skipped (its hash table does not match) or its handleFetch is called.
LookupStep ==
  /\ lookup.pc = "pending"
  /\ LET cur == IF lookup.at = 0 THEN Null ELSE lookup.over[lookup.at]
         prev == IF lookup.asked THEN handle[cur].res ELSE NoAnswer
     IN /\ lookup.asked => handle[cur].pc = "done"
        /\ IF prev.kind = "rejected" \/ FoundAlready(prev) \/ lookup.at = Len(lookup.over)
           THEN /\ lookup' = [lookup EXCEPT !.pc = "done", !.res = prev]
                /\ UNCHANGED <<handle, invoked>>
           ELSE LET v == lookup.over[lookup.at + 1]
                IN IF HashMatches(manifestOf[v].hashEntry)
                   THEN /\ handle[v].pc = "idle"
                        /\ lookup' = [lookup EXCEPT !.at = @ + 1, !.asked = TRUE]
                        /\ StartHandleFetch(v, "lookup")
                   ELSE /\ lookup' = [lookup EXCEPT !.at = @ + 1, !.asked = FALSE]
                        /\ UNCHANGED <<handle, invoked>>
  /\ UNCHANGED <<manifestOf, versionOrder, opened>>

\* A Driver whose versions are built one after the other, serve fetch events and
\* are looked through for a resource with a given hash.
InitLookup ==
  /\ DriverParked /\ AssetParked /\ DataParked /\ IdleParked /\ VersionParked
  /\ \E ms \in [Hashes -> Manifests({"app"})] : AppStart(ms)

NextLookup ==
  \/ NewAppVersion /\ UNCHANGED <<driverAll, assetVars, dataVars, idleVars, versionVars>>
  \/ VersionHandleFetch /\ UNCHANGED <<driverAll, assetVars, dataVars, idleVars, versionVars>>
  \/ GroupHandlerSettles /\ UNCHANGED <<driverAll, assetVars, dataVars, idleVars, versionVars>>
  \/ LookupCall /\ UNCHANGED <<driverAll, assetVars, dataVars, idleVars, versionVars>>
  \/ LookupStep /\ UNCHANGED <<driverAll, assetVars, dataVars, idleVars, versionVars>>

SpecLookup == InitLookup /\ [][NextLookup]_vars

\* The versions of manifests with any group names are built.
InitStores ==
  /\ DriverParked /\ AssetParked /\ DataParked /\ IdleParked /\ VersionParked
  /\ \E ms \in [Hashes -> {m \in Manifests(GroupNames) : m.hashEntry = "none"}] :
       AppStart(ms)

NextStores ==
  \/ NewAppVersion /\ UNCHANGED <<driverAll, assetVars, dataVars, idleVars, versionVars>>

SpecStores == InitStores /\ [][NextStores]_vars

\* ------------------------------------------------------------- properties

AnyClient == Clients \cup {Null}
NetworkAnswers == {"network", "network_reject"}

\* handleFetch resumes for a waiting event of client c in this step.
Resumes(c) == reqs'[Waiting(c)] < reqs[Waiting(c)]

\* C1: after a successful initialization the version chosen for a fetch event is
\* clientVersionMap[c] for an assigned client, latestHash for an unassigned or null
\* client in state NORMAL (the unassigned client is pinned to it), and none in every
\* other case, where the event is answered by a plain network fetch.
C1_VersionChoice ==
  [][\A c \in AnyClient :
       (initialized = "resolved" /\ Resumes(c)) =>
         LET v == IF c # Null /\ c \in DOMAIN clientVersionMap THEN clientVersionMap[c]
                  ELSE IF state = NORMAL THEN latestHash
                  ELSE Null
         IN /\ v # Null =>
                 /\ v \in Hashes
                 /\ reqs'[Serving(v)] = reqs[Serving(v)] + 1
                 /\ last' = last
            /\ v = Null =>
                 /\ \A h \in Hashes : reqs'[Serving(h)] = reqs[Serving(h)]
                 /\ last' \in NetworkAnswers
            /\ clientVersionMap' =
                 IF c # Null /\ c \notin DOMAIN clientVersionMap /\ v # Null
                 THEN MapSet(clientVersionMap, c, v)
                 ELSE clientVersionMap]_vars

\* An assigned client is being served by its version although a newer one is the latest.
C1_Witness ==
  /\ initialized = "resolved"
  /\ \E c \in DOMAIN clientVersionMap :
       /\ clientVersionMap[c] # latestHash
       /\ reqs[Serving(clientVersionMap[c])] > 0
       /\ reqs[Serving(latestHash)] = 0

\* A checkForUpdate() call returns true in this step, for hash h.
ReturnsTrue(i) == upd[i].pc = "sync" /\ upd'[i].pc = "idle"

\* C2: a checkForUpdate() never adds, removes or changes an entry of
\* clientVersionMap; once initialized, a client keeps the version it is assigned to;
\* the hash of an update that returns true is the latest from then on (until the
\* next update returns true), and a client id seen for the first time is pinned to
\* and served by that latest version.
C2_UpdateKeepsAssignments ==
  [][/\ upd' # upd => clientVersionMap' = clientVersionMap
     /\ initialized = "resolved" =>
          /\ \A c \in DOMAIN clientVersionMap :
               c \in DOMAIN clientVersionMap' /\ clientVersionMap'[c] = clientVersionMap[c]
          /\ \A i \in UpdSlots : ReturnsTrue(i) => latestHash' = upd[i].hash
          /\ latestHash' # latestHash => \E i \in UpdSlots : ReturnsTrue(i)
          /\ \A c \in Clients :
               (Resumes(c) /\ c \notin DOMAIN clientVersionMap) =>
                 /\ c \in DOMAIN clientVersionMap'
                 /\ clientVersionMap'[c] = latestHash
                 /\ reqs'[Serving(latestHash)] = reqs[Serving(latestHash)] + 1]_vars

\* After an update on a fresh installation: one client still on the first version
\* and being served by it, another one pinned to the update.
C2_Witness ==
  /\ initialized = "resolved"
  /\ DOMAIN db.assignments = {}
  /\ \E c1, c2 \in DOMAIN clientVersionMap :
       /\ clientVersionMap[c1] \in db.manifests
       /\ clientVersionMap[c2] \notin db.manifests
       /\ clientVersionMap[c2] = latestHash
       /\ reqs[Serving(clientVersionMap[c1])] > 0

\* C3: a client that had an assignment before a restart is assigned, after the
\* restart, to the same manifest version as before it.
C3_RestartKeepsAssignments ==
  \A c \in DOMAIN preRestart \cap DOMAIN clientVersionMap :
    clientVersionMap[c] = preRestart[c]

\* C4: every hash a client is assigned to is a key of the versions map, and after
\* initialization every hash of the persisted assignments is a key of the persisted
\* manifests.
C4_AssignedHashesKnown ==
  /\ \A c \in DOMAIN clientVersionMap : clientVersionMap[c] \in versions
  /\ initialized = "resolved" =>
       /\ db.present
       /\ \A c \in DOMAIN db.assignments : db.assignments[c] \in db.manifests

\* Initialized from a table with assignments: a rehydrated client and a client
\* pinned later, on different versions.
C4_Witness ==
  /\ initialized = "resolved"
  /\ \E c1 \in DOMAIN db.assignments, c2 \in DOMAIN clientVersionMap \ DOMAIN db.assignments :
       /\ c1 \in DOMAIN clientVersionMap
       /\ clientVersionMap[c1] # clientVersionMap[c2]

\* The full initialization of the version that the control table names as the
\* latest has failed, and initialize() has resolved.
LatestFailed == initialized = "resolved" /\ vinit[init.latest] = "failed"

\* C5: when the full initialization of the latest version fails, the driver ends
\* in state EXISTING_CLIENTS_ONLY.
C5_LatestFailureRestricts == LatestFailed => state = EXISTING_CLIENTS_ONLY

C8_SafeModeAbsorbing ==
  /\ [](state = SAFE_MODE => \A h \in Hashes : reqs[Serving(h)] = 0)
  /\ [][/\ state = SAFE_MODE => state' = SAFE_MODE
        /\ state # NORMAL => state' # NORMAL
        /\ state = SAFE_MODE => \A k \in ReqKinds : reqs'[k] <= reqs[k]]_vars

\* In SAFE_MODE while an update check has installed a version and is about to
\* return true.
C8_Witness ==
  /\ state = SAFE_MODE
  /\ \E i \in UpdSlots : upd[i].pc = "sync"

\* initialize() has ended on a failed manifest fetch or on a control table whose
\* latest or assignments name a hash that is not among its manifests.
InitFails ==
  /\ init.pc = "done"
  /\ \/ init.latest \notin init.manifests
     \/ \E c \in DOMAIN init.assignments : init.assignments[c] \notin init.manifests

\* C9: a failing initialize() rejects; the state is SAFE_MODE as soon as a request
\* that waited for it has resumed; each such request is answered by a plain network
\* fetch without a version being assigned; and initialize() runs at most once.
C9_InitFailureSafeMode ==
  /\ [](/\ InitFails => initialized = "rejected"
        /\ initialized = "rejected" =>
             \/ state = SAFE_MODE
             \/ \E c \in AnyClient : reqs[Waiting(c)] > 0
        /\ initRuns <= 1)
  /\ [][\A c \in AnyClient :
          (initialized = "rejected" /\ Resumes(c)) =>
            /\ state' = SAFE_MODE
            /\ last' \in NetworkAnswers
            /\ clientVersionMap' = clientVersionMap
            /\ \A h \in Hashes : reqs'[Serving(h)] = reqs[Serving(h)]]_vars

\* An inconsistent control table was read, the waiting requests have all been
\* answered from the network, and the driver is in SAFE_MODE after one initialize().
C9_Witness ==
  /\ state = SAFE_MODE
  /\ db.present
  /\ InitFails
  /\ initRuns = 1
  /\ InFlight = 0
  /\ last = "network"

\* C10: the promise handed to respondWith never rejects with an error thrown by
\* assignVersion or by the handler of the chosen version.  (A rejection of the
\* fallback scope.fetch itself, "network_reject", is the outcome the browser would
\* have had without the driver and is not counted.)
C10_RespondWithNeverRejects == last \notin {"assign_throw", "handler_throw"}

\* C11: a checkForUpdate() that fetches a manifest whose hash is a key of versions
\* returns false, one whose candidate version cannot be fully initialized fails,
\* and no step of a call that does not install its version changes versions,
\* latestHash, clientVersionMap or the ready state.
C11_FailedUpdateChangesNothing ==
  [][\A i \in UpdSlots :
       /\ (upd[i].pc = "manifest" /\ upd'[i] # upd[i]
             /\ FetchLatestManifest(server) \in versions)
            => upd'[i] = IdleUpd /\ last' = "update_false"
       /\ (upd[i].pc = "init" /\ upd'[i] # upd[i]
             /\ ~CanFill(upd[i].hash, cached, server))
            => upd'[i] = IdleUpd /\ last' = "update_failed"
       /\ (upd'[i] # upd[i] /\ upd'[i].pc # "sync" /\ last' # "update_true")
            => UNCHANGED driverVars]_vars

\* An update check has just failed on a driver that serves pinned clients, and the
\* candidate version is not installed.
C11_Witness ==
  /\ last = "update_failed"
  /\ initialized = "resolved"
  /\ DOMAIN clientVersionMap # {}
  /\ versions # Hashes
  /\ latestHash \in versions

\* C12: no two checkForUpdate() calls construct and initialize (or install) a
\* version for the same hash at the same time.
C12_OneInstallPerHash ==
  \A i, j \in UpdSlots :
    (i # j /\ upd[i].pc \in {"init", "sync"} /\ upd[j].pc \in {"init", "sync"})
      => upd[i].hash # upd[j].hash

\* The calls whose fetchFromNetwork has a network request under way for url u.
OnNetwork(c, u) == {t \in CallIds : c[t].pc \in {"net1", "net2"} /\ c[t].url = u}

\* Call t enters fetchAndCacheOnce in this step.
NewCall(t) == calls[t].pc = "free" /\ calls'[t].pc # "free"

\* C13: at most one network fetch operation per url of the group is under way at
\* any time, and a fetchAndCacheOnce that starts while an operation for its url is
\* registered starts none of its own.
C13_OneFetchPerUrl ==
  /\ [](\A u \in AssetUrls : Cardinality(OnNetwork(calls, u)) <= 1)
  /\ [][\A t \in CallIds :
          (NewCall(t) /\ inFlightRequests[calls'[t].url] # NoCall)
            => calls'[t].pc \in {"joined", "got"}]_vars

\* A second call waits for the network fetch that the first one started.
C13_Witness ==
  \E t, j \in CallIds :
    /\ calls[t].pc = "net1" /\ inFlightRequests[calls[t].url] = t
    /\ calls[j].pc = "joined" /\ calls[j].url = calls[t].url

\* C14: every response returned for the listed (hashed) url, to a fetch event or to
\* a newer version that copies it, has a body with the hash of the hash table.
C14_ReturnedBodyHasHash ==
  /\ (answered.url = Listed /\ answered.res \notin {NoRes, Thrown})
       => Sha1(answered.res.body) = HashTable[Listed]
  /\ copied # NoRes => Sha1(copied.body) = HashTable[Listed]

\* C15: no response with ok = false is in the group's cache or in the cache of the
\* newer version that copied from it.
C15_OnlyOkCached ==
  /\ \A u \in AssetUrls : assetCache[u] # NoRes => assetCache[u].ok
  /\ copied # NoRes => copied.ok

\* The listed url of a prefetch group is cached and initializeFully has not failed.
PrefetchDone == mode = "prefetch" /\ assetCache[Listed] # NoRes /\ groupInit # "rejected"

\* C16: when initializeFully of a prefetch group has resolved, the listed url is in
\* the cache with the right content; from then on, whatever the server serves and
\* across restarts, the cache entry stays, no network request starts, no idle task
\* is scheduled and every request is answered with the cached response.
C16_PrefetchedServedFromCache ==
  /\ []((mode = "prefetch" /\ groupInit = "resolved")
          => /\ assetCache[Listed] # NoRes
             /\ Sha1(assetCache[Listed].body) = HashTable[Listed])
  /\ [][PrefetchDone =>
          /\ assetCache' = assetCache
          /\ idleQueue' = idleQueue
          /\ OnNetwork(calls', Listed) \subseteq OnNetwork(calls, Listed)
          /\ groupInit' # "running"
          /\ (answered' # answered /\ answered'.res # NoRes)
               => answered'.res = assetCache[Listed]]_vars

\* After a restart, with the file gone from the server, a request was answered
\* from the cache.
C16_Witness ==
  /\ mode = "prefetch"
  /\ groupInit = "resolved"
  /\ assetServer[Listed] = NotFound
  /\ assetCache[Listed] # NoRes
  /\ answered = [url |-> Listed, res |-> assetCache[Listed]]
  /\ \A t \in CallIds : calls[t].pc = "free"

C18_CachedUnhashedServed ==
  [][(assetCache[Unhashed] # NoRes /\ calls' = calls /\ answered' # answered)
       => answered'.res = assetCache[Unhashed]]_vars

\* The urls that have an entry in the data group's cache.
DataCached == {u \in DataUrls : dataCache[u] # NoRes}

\* The urls reached from key by following next pointers, at most n of them.
RECURSIVE Chain(_, _, _)
Chain(st, key, n) ==
  IF n = 0 \/ key \notin DataUrls \/ st.map[key] = NoNode THEN {}
  ELSE {key} \cup Chain(st, st.map[key].next, n - 1)

\* The members of the LRU list: the nodes on the chain from head.
LruMembers(st) == Chain(st, st.head, Cardinality(DataUrls))

\* Request i is inside cacheResponse.
InCacheResponse(i) ==
  dataReqs[i].pc \in {"evictCache", "evictAge", "put", "writeAge", "syncCached"}

\* C19: whenever no caching step is under way the LRU's size is at most maxSize,
\* and the cache never holds more than maxSize urls.
C19_WithinMaxSize ==
  /\ (\A i \in DataReqIds : ~InCacheResponse(i)) => lru.count <= maxSize
  /\ Cardinality(DataCached) <= maxSize

\* C20: whenever no request of the group is in progress, every url with a cache
\* entry is a member of the LRU list and has an age record.
C20_CachedUrlsTracked ==
  (\A i \in DataReqIds : dataReqs[i].pc = "free")
    => \A u \in DataCached : u \in LruMembers(lru) /\ ageTable[u] # NoTs

\* A GET or HEAD of the group returns a response to its caller (the 504 of a
\* timeout is answered earlier, at DataTimeout, and a rejection is no return).
DataReturns(i) ==
  /\ dataReqs[i].pc # "free"
  /\ dataReqs'[i].pc = "free"
  /\ ~dataReqs[i].mutating
  /\ ~dataReqs[i].late
  /\ dataAnswered'.ok

\* C21: a GET/HEAD that found a cache entry is answered from the cache exactly
\* when it has an age record with now - age <= maxAge (otherwise the entry is
\* evicted and the request goes on to the network); and when a GET/HEAD returns
\* successfully its url is in both the cache and the LRU list or in neither.
C21_FreshServedAndTracked ==
  [][\A i \in DataReqIds :
       LET u == dataReqs[i].url
           fresh == ageTable[u] # NoTs /\ dataTime - ageTable[u] <= maxAge
       IN /\ (dataReqs[i].pc = "age" /\ dataReqs'[i] # dataReqs[i])
               => IF fresh
                  THEN dataReqs'[i].pc = "free" /\ dataAnswered' = dataCache[u]
                  ELSE dataReqs'[i].pc = "clearCache"
          /\ DataReturns(i)
               => (dataCache'[u] # NoRes <=> u \in LruMembers(lru'))]_vars

\* The network answers request i with an OK response for a url that is not
\* cached, while the cache holds exactly maxSize urls.
FetchedIntoFullCache(i) ==
  /\ dataReqs[i].pc = "fetch"
  /\ dataReqs'[i].pc # "fetch"
  /\ dataServer
  /\ dataReqs[i].url \notin DataCached
  /\ Cardinality(DataCached) = maxSize

\* C22: when the cache holds exactly maxSize urls and a new url is fetched with
\* an OK response, the LRU tail, a cached url, is the one url taken out of the
\* LRU list; and when the caching is complete the evicted url has no cache entry,
\* no age record and no LRU membership, while the cache holds the new url and
\* again exactly maxSize urls, all of them in the LRU list.
C22_EvictsExactlyTheTail ==
  [][\A i \in DataReqIds :
       /\ FetchedIntoFullCache(i)
            => /\ dataReqs'[i].pc = "evictCache"
               /\ dataReqs'[i].target = lru.tail
               /\ lru.tail \in DataCached
               /\ LruMembers(lru') = LruMembers(lru) \ {lru.tail}
       /\ (dataReqs[i].pc = "syncCached" /\ dataReqs'[i].pc = "free"
             /\ dataReqs[i].target # NoUrl)
            => LET kept == {u \in DataUrls : dataCache'[u] # NoRes}
               IN /\ dataReqs[i].target \notin kept
                  /\ ageTable'[dataReqs[i].target] = NoTs
                  /\ dataReqs[i].url \in kept
                  /\ Cardinality(kept) = maxSize
                  /\ LruMembers(lru') = kept]_vars

\* C23: when the timer fires before the network has responded the request is
\* answered with the synthetic 504 and its fetch stays under way; the 504 is never
\* in the cache; and when the work of a timed-out request ends after an OK
\* response of the network, its url has a cache entry, is in the LRU list and has
\* an age record.
C23_TimedOutFetchIsCached ==
  [][/\ \A u \in DataUrls : dataCache'[u] # GatewayTimeout
     /\ \A i \in DataReqIds :
          LET u == dataReqs[i].url
          IN /\ (dataReqs[i].pc = "fetch" /\ ~dataReqs[i].late /\ dataReqs'[i].late)
                  => /\ dataAnswered' = GatewayTimeout
                     /\ dataReqs'[i].pc = "fetch"
                     /\ dataCache' = dataCache
             /\ (dataReqs[i].late /\ dataReqs'[i].pc = "free"
                   /\ (dataReqs[i].pc = "fetch" => dataServer))
                  => /\ dataCache'[u] = DataOk
                     /\ u \in LruMembers(lru')
                     /\ ageTable'[u] # NoTs]_vars

\* C24: when a mutating request for a url of the group completes, the url has
\* no cache entry, is not in the LRU list and has no age record, the persisted
\* LRU equals the LRU in memory, and the caller has the network's answer; and no
\* mutating request is rejected by lru.remove (the one step that answers with a
\* rejection while no request record changes).
C24_MutatingRequestPurges ==
  [][/\ \A i \in DataReqIds :
          (dataReqs[i].mutating /\ dataReqs'[i].pc = "free")
            => LET u == dataReqs[i].url
               IN /\ dataAnswered' = DataFetch
                  /\ dataCache'[u] = NoRes
                  /\ ageTable'[u] = NoTs
                  /\ u \notin LruMembers(lru')
                  /\ lruTable' = lru'
     /\ ~(dataReqs' = dataReqs /\ dataAnswered # Thrown /\ dataAnswered' = Thrown)]_vars

\* The urls that are keys of the LruList's map.
LruKeys(st) == {u \in DataUrls : st.map[u] # NoNode}

\* C25: whatever operations were applied to an LruList, count is the number of
\* keys of map and the number of nodes reached from head.
C25_CountMatchesMapAndChain ==
  /\ lru.count = Cardinality(LruKeys(lru))
  /\ lru.count = Cardinality(LruMembers(lru))

\* The urls met from key by following the pointer dir (next or previous), in
\* order, with fuel n; the walk ends at null, and fails to end when the fuel is
\* spent or a pointer leads to no node.
RECURSIVE Walk(_, _, _, _)
Walk(st, key, dir, n) ==
  IF key = NoUrl THEN [ends |-> TRUE, urls |-> <<>>]
  ELSE IF n = 0 \/ NodeAt(st, key) = NoNode THEN [ends |-> FALSE, urls |-> <<>>]
  ELSE LET rest == Walk(st, IF dir = "next" THEN st.map[key].next
                            ELSE st.map[key].previous, dir, n - 1)
       IN [ends |-> rest.ends, urls |-> <<key>> \o rest.urls]

Reversed(q) == [k \in 1..Len(q) |-> q[Len(q) + 1 - k]]

\* C26: whatever operations were applied to an LruList, the head node has no
\* previous, the tail node has no next, and the walks from head by next and from
\* tail by previous both end and meet the same urls in opposite orders.
C26_ChainWellFormed ==
  LET fwd == Walk(lru, lru.head, "next", Cardinality(DataUrls))
      bwd == Walk(lru, lru.tail, "previous", Cardinality(DataUrls))
  IN /\ lru.head # NoUrl => NodeAt(lru, lru.head).previous = NoUrl
     /\ lru.tail # NoUrl => NodeAt(lru, lru.tail).next = NoUrl
     /\ fwd.ends
     /\ bwd.ends
     /\ fwd.urls = Reversed(bwd.urls)

\* C27: when the timer of a trigger() call expires the call does not fail, and
\* it calls execute() exactly when no later trigger() call has started a timer in
\* the meantime (so that execute() is called once, at the expiry of the most
\* recent timer).
C27_OnlyLatestTimerExecutes ==
  [][\A i \in TriggerIds :
       (triggers[i].pc = "timer" /\ triggers'[i].pc # "timer")
         => /\ triggers'[i].pc # "threw"
            /\ triggers'[i].ran
                 <=> ~\E j \in TriggerIds : j > i /\ triggers[j].pc = "timer"]_vars

\* No task started by execute() is still running.
NoTaskRunning == \A i \in TriggerIds : running[i] = NoTasks

\* C28: at the moment execute() resolves the armed empty promise, the queue is
\* empty and no idle task is still running.
C28_EmptyResolvesWhenDrained ==
  [][(emptyResolve /\ ~emptyResolve') => (queue = <<>> /\ NoTaskRunning)]_vars

\* C29: execute() is never rejected, whatever the tasks do; and once the queue
\* is empty, no task is running and no trigger() call is waiting for its timer
\* or for a wave, the empty promise has been resolved.
C29_FailingTaskSwallowed ==
  /\ \A i \in TriggerIds : triggers[i].pc # "rejected"
  /\ (/\ queue = <<>>
      /\ NoTaskRunning
      /\ \A i \in TriggerIds : triggers[i].pc \notin {"timer", "wave"})
       => ~emptyResolve /\ empty = "resolved"

\* Some asset group's initializeFully has failed.
SomeGroupFailed == \E k \in GroupIds : groupRun[k] = "failed"

\* C30: a group's initializeFully is called only when the group declared before
\* it is done, so never after a failure; initializeFully of the version resolves
\* only with every group done, is rejected only after a failure, and _okay is
\* false exactly when it has been rejected; and after a group has failed the
\* call is rejected with _okay false in the end.
C30_GroupsInSeries ==
  /\ [](/\ \A k \in GroupIds :
            (k > 1 /\ groupRun[k] # "idle") => groupRun[k - 1] = "done"
        /\ fully = "resolved" => \A k \in GroupIds : groupRun[k] = "done"
        /\ fully = "rejected" => SomeGroupFailed
        /\ okay <=> fully # "rejected")
  /\ [](SomeGroupFailed => <>(fully = "rejected" /\ ~okay))

\* The second of three groups has failed: the third was never started and the
\* call was rejected with _okay false.
C30_Witness ==
  /\ groupRun[1] = "done"
  /\ groupRun[2] = "failed"
  /\ groupRun[3] = "idle"
  /\ fully = "rejected"
  /\ ~okay

\* A fetch event is handled in this step: it enters handleFetch, resumes after
\* `await this.initialized`, or gets the answer of its version.
FetchEventStep == reqs' # reqs

\* C33: handling a fetch event changes clientVersionMap only by adding
\* c -> latestHash for the event's client c, which is not null and was not
\* assigned, while the state is NORMAL; existing assignments are neither changed
\* nor removed, and nothing is added for a null client id or in another state.
C33_FetchOnlyPinsNewClient ==
  [][FetchEventStep =>
       \/ clientVersionMap' = clientVersionMap
       \/ \E c \in Clients :
            /\ reqs'[Waiting(c)] = reqs[Waiting(c)] - 1
            /\ c \notin DOMAIN clientVersionMap
            /\ state = NORMAL
            /\ latestHash # Null
            /\ clientVersionMap' = MapSet(clientVersionMap, c, latestHash)]_vars

\* A client the control table did not know was pinned to the latest version by
\* its fetch event, next to a client the table pins to another version, while
\* the latest version is serving a request.
C33_Witness ==
  /\ state = NORMAL
  /\ db.present
  /\ \E c1, c2 \in DOMAIN clientVersionMap :
       /\ c1 \notin DOMAIN db.assignments
       /\ clientVersionMap[c1] = latestHash
       /\ c2 \in DOMAIN db.assignments
       /\ clientVersionMap[c2] # latestHash
  /\ reqs[Serving(latestHash)] > 0

\* C34: for a hashed url, the first request of fetchFromNetwork is followed by a
\* cache-busted one exactly when the SHA-1 of the first body is not
\* hashTable[url]; there is no third request; the operation hands a response
\* (to the caching step of its owner, or to a call that joined it) only when
\* the body's hash is hashTable[url]; and when the cache-busted response is not
\* OK or has another hash, the operation fails and the cache is left as it was.
\* (A step to groupInit = "none" is a restart of the worker, which drops the calls.)
C34_CacheBustedOnMismatch ==
  [][\A t \in CallIds :
       LET u == calls[t].url
           r == assetServer[u]
           canonical(res) == Sha1(res.body) = HashTable[u]
       IN (Hashed(u) /\ groupInit' # "none") =>
            /\ (calls[t].pc = "net1" /\ calls'[t].pc # "net1") =>
                 /\ calls'[t].pc = "net2" <=> ~canonical(r)
                 /\ calls'[t].pc = "put" => canonical(calls'[t].res)
            /\ (calls[t].pc = "net2" /\ calls'[t].pc # "net2") =>
                 /\ calls'[t].pc \in {"put", "free"}
                 /\ calls'[t].pc = "put" => canonical(calls'[t].res)
                 /\ (~r.ok \/ ~canonical(r)) =>
                      /\ calls'[t].pc = "free"
                      /\ assetCache' = assetCache
                      /\ inFlightRequests'[u] = NoCall
            /\ (calls[t].pc = "joined" /\ calls'[t].pc = "got") =>
                 calls'[t].res = Thrown \/ canonical(calls'[t].res)]_vars

\* Call t of fetchAndCacheOnce, made by handleFetch for a fetch event, settles in
\* this step.
CallSettles(t) == calls[t].pc # "free" /\ calls'[t].pc = "free" /\ calls[t].kind = "request"

\* C38: a call of fetchAndCacheOnce whose network response is not OK fails,
\* whether the call started the network fetch or joined it while it was in
\* flight: a call that settles is rejected or resolves with an OK response.
C38_NotOkFailsEveryCaller ==
  [][\A t \in CallIds :
       CallSettles(t) => (answered'.res = Thrown \/ answered'.res.ok)]_vars

\* C36: the promise handed to waitUntil after a timeout stays pending until the
\* background caching of the late response (cache put, age write, LRU persist)
\* is over: it settles only in the step that ends the background task.
C36_WaitUntilCoversCaching ==
  [][\A i \in DataReqIds :
       (dataReqs[i].waitUntil = "pending" /\ dataReqs'[i].waitUntil # "pending")
         => dataReqs'[i].pc = "free"]_vars

\* The reference sequence an LruList stands for: its urls read from head to tail.
AsSequence(st) == Walk(st, st.head, "next", Cardinality(DataUrls)).urls

\* The sequence q without the url u.
Without(q, u) == SelectSeq(q, LAMBDA x : x # u)

\* Is u an element of the sequence q?
Holds(q, u) == \E k \in 1..Len(q) : q[k] = u

\* C37: in every state a sequence of operations leads an LruList to, with q the
\* list read from head to tail: the urls of q are distinct and size is its
\* length; accessed(url) returns and leaves url followed by the rest of q;
\* pop() returns the last url of q (null when q is empty) and leaves the others;
\* remove(url) returns true exactly when url is in q and leaves q without it,
\* and a second remove(url) returns false; a second accessed(url) changes nothing.
C37_BehavesLikeSequence ==
  LET q == AsSequence(lru)
      p == LruPop(lru)
  IN /\ \A j, k \in 1..Len(q) : q[j] = q[k] => j = k
     /\ lru.count = Len(q)
     /\ p.ok
     /\ p.ret = IF q = <<>> THEN NoUrl ELSE q[Len(q)]
     /\ AsSequence(p.state) = IF q = <<>> THEN q ELSE SubSeq(q, 1, Len(q) - 1)
     /\ \A u \in DataUrls :
          LET a == LruAccessed(lru, u)
              again == LruAccessed(a.state, u)
              r == LruRemove(lru, u)
              twice == LruRemove(r.state, u)
          IN /\ a.ok
             /\ AsSequence(a.state) = <<u>> \o Without(q, u)
             /\ again.ok /\ again.state = a.state
             /\ r.ok
             /\ r.ret = Holds(q, u)
             /\ AsSequence(r.state) = Without(q, u)
             /\ twice.ok /\ twice.ret = FALSE

\* C40: whatever subsets of the control-table writes reached storage before the
\* worker was terminated, the store is never left with all three keys and a
\* latest hash that is no key of manifests (the reads of every later
\* initialization would resolve, nothing would be written again, and each would
\* fail); and an initialization that reaches its end (the server was reachable
\* if the manifest had to be fetched) resolves with the latest version loaded
\* and the state NORMAL.
C40_RecoversFromPartialWrites ==
  [][/\ db'.present => db'.latest \in db'.manifests
     /\ (init.pc = "inits" /\ init'.pc = "done") =>
          /\ initialized' = "resolved"
          /\ latestHash' \in versions'
          /\ state' = NORMAL]_vars

\* C39: no cache and no table is opened by two versions: the stores of the
\* groups of two AppVersions with different manifest hashes are disjoint.
C39_StoresDisjoint ==
  \A h1, h2 \in Constructed : h1 # h2 => opened[h1] \cap opened[h2] = {}

\* The groups of manifest m in the order handleFetch consults them: the asset
\* groups as declared, then the data groups as declared.
GroupOrder(m) ==
  [k \in 1..Len(m.assetGroups) |-> <<"assets", k>>]
    \o [k \in 1..Len(m.dataGroups) |-> <<"data", k>>]

\* C31: AppVersion.handleFetch invokes the group handlers in the order asset
\* groups as declared, then data groups as declared, and invokes one only when
\* every group before it has abstained; it returns the response of the first
\* group that gives one, returns null only when every group was asked and
\* abstained (at once when the manifest has no groups), and is rejected only
\* when the last group it asked threw.
C31_FirstGroupAnswers ==
  \A h \in Hashes :
    LET order == GroupOrder(manifestOf[h])
        inv == invoked[h]
        n == Len(inv)
        res == handle[h].res
    IN /\ n <= Len(order)
       /\ \A k \in 1..n : inv[k].group = order[k]
       /\ \A k \in 1..n : k < n => inv[k].answer = "null"
       /\ (n > 0 /\ inv[n].answer \in {"response", "throws"}) => handle[h].pc = "done"
       /\ handle[h].pc = "done" =>
            /\ res.kind = "response" =>
                 n > 0 /\ inv[n].answer = "response" /\ res = Response(h, order[n])
            /\ res.kind = "null" =>
                 n = Len(order) /\ (n > 0 => inv[n].answer = "null")
            /\ res.kind = "rejected" => n > 0 /\ inv[n].answer = "throws"

\* A version with two asset groups and two data groups returned the response of
\* its first data group without asking the second, and a version without groups
\* returned null.
C31_Witness ==
  \E h1, h2 \in Hashes :
    /\ Len(manifestOf[h1].assetGroups) = 2
    /\ Len(manifestOf[h1].dataGroups) = 2
    /\ handle[h1].pc = "done"
    /\ handle[h1].res = Response(h1, <<"data", 1>>)
    /\ Len(invoked[h1]) = 3
    /\ GroupOrder(manifestOf[h2]) = <<>>
    /\ handle[h2].pc = "done"
    /\ handle[h2].res = NoAnswer

\* Version v was asked for its cached content by the lookup.
Asked(v) == handle[v].by = "lookup"

\* C32: Driver.lookupResourceWithHash asks a version for its content only when
\* the version's hashTable maps the url to the hash, and only when every
\* version before it in the iteration order was skipped or gave null; a response
\* it returns is the one of the first version that gave one, whose hashTable has
\* the url with the hash, and no later version was asked.
C32_FirstMatchingVersion ==
  LET over == lookup.over
  IN /\ \A v \in Hashes : Asked(v) => manifestOf[v].hashEntry = "same"
     /\ \A j, k \in 1..Len(over) :
          (j < k /\ Asked(over[j]) /\ Asked(over[k])) =>
            (handle[over[j]].pc = "done" /\ handle[over[j]].res = NoAnswer)
     /\ (lookup.pc = "done" /\ lookup.res.kind = "response") =>
          \E k \in 1..Len(over) :
            /\ Asked(over[k])
            /\ lookup.res = handle[over[k]].res
            /\ lookup.res.hash = over[k]
            /\ \A j \in 1..Len(over) : j > k => ~Asked(over[j])

\* The lookup returned the response of the first version; the second version has
\* the url with the same hash and was not asked.
C32_Witness ==
  /\ lookup.pc = "done"
  /\ Len(lookup.over) = 2
  /\ lookup.res.kind = "response"
  /\ lookup.res.hash = lookup.over[1]
  /\ manifestOf[lookup.over[2]].hashEntry = "same"
  /\ handle[lookup.over[2]].pc = "idle"

\* Call t belongs to a lookup in this version made by the maybeUpdate of a newer
\* version's group; LazyAssetGroup.initializeFully does nothing else for a listed
\* url that is missing from its cache.
ForLookup(c) == c.kind = "lookup"

\* C35: LazyAssetGroup.initializeFully of a newer version causes no network
\* request and no write to the previous version's cache: no call made for its
\* lookup is ever waiting on the network, and a step of such a call leaves the
\* previous version's cache as it is, so a url the previous version has not
\* cached stays uncached in both.
C35_LazyInitNeverFetches ==
  [][\A t \in CallIds :
       /\ ForLookup(calls'[t]) => calls'[t].pc \notin {"net1", "net2"}
       /\ (ForLookup(calls[t]) /\ calls'[t] # calls[t]) => assetCache' = assetCache]_vars

====
